---- MODULE Spec2Model ----
(***************************************************************************)
(* Field reconciliation engine of TIP_testing_pipeline: the three          *)
(* PredictionComparator variants (jyotsana_code.py, pipeline_4.py and      *)
(* pipelining_script.py).  Python values, their str()/json.dumps           *)
(* renderings and json.loads are modelled on token sequences, so that a    *)
(* rendering followed by a parse is a computation and not the identity.    *)
(***************************************************************************)
EXTENDS Integers, Sequences, FiniteSets, TLC

(***************************************************************************)
(* Texts.  A Python str is a sequence of tokens; a token is a record       *)
(* [k, s]: k = "p" punctuation, "ws" one blank, "word" a run of characters *)
(* holding no blank, quote or JSON punctuation, "dq" / "sq" a word in      *)
(* double / single quotes.  Two texts are equal iff the sequences are.     *)
(***************************************************************************)
Tok(k, s) == [k |-> k, s |-> s]
P(s) == Tok("p", s)
WS == Tok("ws", " ")
W(s) == Tok("word", s)
DQ(s) == Tok("dq", s)
SQ(s) == Tok("sq", s)

(***************************************************************************)
(* Python values: None, bool, int, str, list, dict (insertion ordered,     *)
(* keys are words).  One record shape for all of them.                     *)
(***************************************************************************)
Val(t, b, n, txt, keys, items) ==
    [t |-> t, b |-> b, n |-> n, txt |-> txt, keys |-> keys, items |-> items]
VNone == Val("none", FALSE, 0, <<>>, <<>>, <<>>)
VBool(b) == Val("bool", b, 0, <<>>, <<>>, <<>>)
VInt(n) == Val("int", FALSE, n, <<>>, <<>>, <<>>)
VStr(txt) == Val("str", FALSE, 0, txt, <<>>, <<>>)
VList(items) == Val("list", FALSE, 0, <<>>, <<>>, items)
VDict(keys, items) == Val("dict", FALSE, 0, <<>>, keys, items)
\* the str holding the single word s ("" is the empty str)
VWord(s) == IF s = "" THEN VStr(<<>>) ELSE VStr(<<W(s)>>)

\* decimal numerals of the integers the model uses
Numerals == <<"0", "1", "2", "3">>
NumeralOf(n) == Numerals[n + 1]
IsNumeral(s) == \E i \in 1..Len(Numerals) : Numerals[i] = s
NumberOf(s) == (CHOOSE i \in 1..Len(Numerals) : Numerals[i] = s) - 1

\* the word inside a str value that is rendered within a container
AtomOf(v) == IF v.txt = <<>> THEN "" ELSE v.txt[1].s

RECURSIVE JoinItems(_, _)
\* sep.join(parts) for a sequence of texts
JoinItems(parts, sep) ==
    IF parts = <<>> THEN <<>>
    ELSE IF Len(parts) = 1 THEN parts[1]
    ELSE parts[1] \o sep \o JoinItems(Tail(parts), sep)

RECURSIVE Repr(_)
\* Python repr(): what str() shows for the elements of a list or dict
Repr(v) ==
    CASE v.t = "none" -> <<W("None")>>
      [] v.t = "bool" -> IF v.b THEN <<W("True")>> ELSE <<W("False")>>
      [] v.t = "int" -> <<W(NumeralOf(v.n))>>
      [] v.t = "str" -> <<SQ(AtomOf(v))>>
      [] v.t = "list" ->
            <<P("[")>> \o JoinItems([i \in 1..Len(v.items) |-> Repr(v.items[i])],
                                    <<P(","), WS>>) \o <<P("]")>>
      [] v.t = "dict" ->
            <<P("{")>> \o JoinItems([i \in 1..Len(v.items) |->
                                        <<SQ(v.keys[i]), P(":"), WS>> \o Repr(v.items[i])],
                                    <<P(","), WS>>) \o <<P("}")>>

\* Python str(value)
Str(v) == IF v.t = "str" THEN v.txt ELSE Repr(v)

RECURSIVE Dumps(_)
\* json.dumps(value) with the default separators
Dumps(v) ==
    CASE v.t = "none" -> <<W("null")>>
      [] v.t = "bool" -> IF v.b THEN <<W("true")>> ELSE <<W("false")>>
      [] v.t = "int" -> <<W(NumeralOf(v.n))>>
      [] v.t = "str" -> <<DQ(AtomOf(v))>>
      [] v.t = "list" ->
            <<P("[")>> \o JoinItems([i \in 1..Len(v.items) |-> Dumps(v.items[i])],
                                    <<P(","), WS>>) \o <<P("]")>>
      [] v.t = "dict" ->
            <<P("{")>> \o JoinItems([i \in 1..Len(v.items) |->
                                        <<DQ(v.keys[i]), P(":"), WS>> \o Dumps(v.items[i])],
                                    <<P(","), WS>>) \o <<P("}")>>

RECURSIVE LStrip(_)
LStrip(t) == IF t # <<>> /\ Head(t) = WS THEN LStrip(Tail(t)) ELSE t
RECURSIVE RStrip(_)
RStrip(t) == IF t # <<>> /\ t[Len(t)] = WS THEN RStrip(SubSeq(t, 1, Len(t) - 1)) ELSE t
\* str.strip()
Strip(t) == RStrip(LStrip(t))

\* dict[k] = v on an insertion-ordered dict
DictPut(d, k, v) ==
    IF \E i \in 1..Len(d.keys) : d.keys[i] = k
    THEN LET i == CHOOSE j \in 1..Len(d.keys) : d.keys[j] = k
         IN VDict(d.keys, [d.items EXCEPT ![i] = v])
    ELSE VDict(Append(d.keys, k), Append(d.items, v))
HasKey(d, k) == \E i \in 1..Len(d.keys) : d.keys[i] = k
DictGet(d, k) == IF HasKey(d, k)
                 THEN d.items[CHOOSE j \in 1..Len(d.keys) : d.keys[j] = k]
                 ELSE VNone

(***************************************************************************)
(* json.loads: a recursive-descent parser over the tokens.  A result is    *)
(* [ok, val, rest]; ok = FALSE stands for json.JSONDecodeError.            *)
(***************************************************************************)
ParseFail == [ok |-> FALSE, val |-> VNone, rest |-> <<>>]
ParseOk(v, rest) == [ok |-> TRUE, val |-> v, rest |-> rest]

RECURSIVE ParseValue(_), ParseElements(_, _), ParseMembers(_, _)
ParseValue(t0) ==
    LET t == LStrip(t0) IN
    IF t = <<>> THEN ParseFail
    ELSE LET h == Head(t)
             r == LStrip(Tail(t))
         IN CASE h.k = "dq" -> ParseOk(VWord(h.s), Tail(t))
              [] h.k = "word" /\ h.s = "true" -> ParseOk(VBool(TRUE), Tail(t))
              [] h.k = "word" /\ h.s = "false" -> ParseOk(VBool(FALSE), Tail(t))
              [] h.k = "word" /\ h.s = "null" -> ParseOk(VNone, Tail(t))
              [] h.k = "word" /\ IsNumeral(h.s) -> ParseOk(VInt(NumberOf(h.s)), Tail(t))
              [] h = P("[") ->
                    IF r # <<>> /\ Head(r) = P("]")
                    THEN ParseOk(VList(<<>>), Tail(r))
                    ELSE ParseElements(r, <<>>)
              [] h = P("{") ->
                    IF r # <<>> /\ Head(r) = P("}")
                    THEN ParseOk(VDict(<<>>, <<>>), Tail(r))
                    ELSE ParseMembers(r, VDict(<<>>, <<>>))
              [] OTHER -> ParseFail

\* the elements of an array after "[" or ","
ParseElements(t, acc) ==
    LET e == ParseValue(t) IN
    IF ~e.ok THEN ParseFail
    ELSE LET r == LStrip(e.rest) IN
         IF r = <<>> THEN ParseFail
         ELSE IF Head(r) = P(",") THEN ParseElements(Tail(r), Append(acc, e.val))
         ELSE IF Head(r) = P("]") THEN ParseOk(VList(Append(acc, e.val)), Tail(r))
         ELSE ParseFail

\* the members of an object after "{" or ","; a repeated key keeps the last value
ParseMembers(t0, acc) ==
    LET t == LStrip(t0) IN
    IF t = <<>> \/ Head(t).k # "dq" THEN ParseFail
    ELSE LET c == LStrip(Tail(t)) IN
         IF c = <<>> \/ Head(c) # P(":") THEN ParseFail
         ELSE LET e == ParseValue(Tail(c)) IN
              IF ~e.ok THEN ParseFail
              ELSE LET r == LStrip(e.rest)
                       d == DictPut(acc, Head(t).s, e.val)
                   IN IF r = <<>> THEN ParseFail
                      ELSE IF Head(r) = P(",") THEN ParseMembers(Tail(r), d)
                      ELSE IF Head(r) = P("}") THEN ParseOk(d, Tail(r))
                      ELSE ParseFail

\* json.loads(text): [ok, val]
Loads(t) ==
    LET e == ParseValue(t) IN
    IF e.ok /\ LStrip(e.rest) = <<>> THEN [ok |-> TRUE, val |-> e.val]
    ELSE [ok |-> FALSE, val |-> VNone]

(***************************************************************************)
(* Python equality and hashing on decoded JSON values.                     *)
(***************************************************************************)
IsNumber(v) == v.t \in {"bool", "int"}
\* bool is a subclass of int: True == 1 and False == 0
NumValue(v) == IF v.t = "bool" THEN (IF v.b THEN 1 ELSE 0) ELSE v.n

RECURSIVE PyEq(_, _)
\* a == b
PyEq(a, b) ==
    IF IsNumber(a) /\ IsNumber(b) THEN NumValue(a) = NumValue(b)
    ELSE IF a.t # b.t THEN FALSE
    ELSE CASE a.t = "none" -> TRUE
           [] a.t = "str" -> a.txt = b.txt
           [] a.t = "list" ->
                 /\ Len(a.items) = Len(b.items)
                 /\ \A i \in 1..Len(a.items) : PyEq(a.items[i], b.items[i])
           [] a.t = "dict" ->
                 /\ Len(a.keys) = Len(b.keys)
                 /\ \A i \in 1..Len(a.keys) :
                        /\ HasKey(b, a.keys[i])
                        /\ PyEq(a.items[i], DictGet(b, a.keys[i]))
           [] OTHER -> FALSE

\* hash(v) is defined (lists and dicts raise TypeError)
Hashable(v) == v.t \in {"none", "bool", "int", "str"}

\* x in container: a key of a dict, an element of a list
PyIn(x, c) ==
    IF c.t = "dict" THEN x.t = "str" /\ HasKey(c, AtomOf(x))
    ELSE \E i \in 1..Len(c.items) : PyEq(x, c.items[i])

(***************************************************************************)
(* The comparator variants.                                                *)
(***************************************************************************)
Variants == {"jyotsana_code", "pipeline_4", "pipelining_script"}

MATCH == "GT Present PR Present and match"
MISMATCH == "GT Present PR Present but mismatch"
GT_ONLY == "GT Present PR Absent"
PR_ONLY == "GT Absent PR Present"
BOTH_ABSENT == "GT Absent PR Absent"
Statuses == {MATCH, MISMATCH, GT_ONLY, PR_ONLY, BOTH_ABSENT}

\* field.startswith('toggle-') on the field names of the model
TogglePrefixed == {"toggle-x"}
HasTogglePrefix(field) == field \in TogglePrefixed

\* _format_value
FormatValue(v) ==
    IF v.t = "none" THEN <<>>
    ELSE IF v.t \in {"dict", "list"} THEN Dumps(v)
    ELSE Str(v)

\* _is_json_string
IsJsonString(t) ==
    /\ t # <<>>
    /\ Head(t) \in {P("["), P("{")}
    /\ Loads(t).ok

\* set(frozenset(d.items()) if isinstance(d, dict) else d for d in xs) is built
\* without a TypeError
SetBuildable(xs) ==
    \A i \in 1..Len(xs.items) :
        LET d == xs.items[i] IN
        IF d.t = "dict" THEN \A j \in 1..Len(d.items) : Hashable(d.items[j])
        ELSE Hashable(d)

\* set(frozenset(d.items()) for d in xs) is built: every element has .items()
SetBuildableItemsOnly(xs) ==
    \A i \in 1..Len(xs.items) :
        LET d == xs.items[i] IN
        d.t = "dict" /\ \A j \in 1..Len(d.items) : Hashable(d.items[j])

\* the two built sets are equal: each element equals some element of the other
SetEq(xs, ys) ==
    /\ \A i \in 1..Len(xs.items) : \E j \in 1..Len(ys.items) : PyEq(xs.items[i], ys.items[j])
    /\ \A j \in 1..Len(ys.items) : \E i \in 1..Len(xs.items) : PyEq(xs.items[i], ys.items[j])

\* _compare_json_values; any exception inside gives False
CompareJsonValues(variant, gt_json_str, pred_json_str) ==
    LET g == Loads(gt_json_str)
        p == Loads(pred_json_str)
    IN IF ~g.ok \/ ~p.ok THEN FALSE
       ELSE IF g.val.t = "dict" /\ p.val.t = "dict" THEN PyEq(g.val, p.val)
       ELSE IF g.val.t = "list" /\ p.val.t = "list"
            THEN IF variant = "pipelining_script"
                 THEN /\ SetBuildableItemsOnly(g.val)
                      /\ SetBuildableItemsOnly(p.val)
                      /\ SetEq(g.val, p.val)
                 ELSE /\ SetBuildable(g.val)
                      /\ SetBuildable(p.val)
                      /\ SetEq(g.val, p.val)
       ELSE FALSE

\* MatchLabels with the same two labels in every variant
MatchLabels_SameEverywhere(variant) == {"default_match", "json_partial_correct"}

\* the labels for which the judge's answer counts as a match
MatchLabels(variant) ==
    IF variant = "jyotsana_code" THEN {"json_partial_correct"}
    ELSE {"default_match", "json_partial_correct"}

\* what the judge may answer (response.text), and a failed call
JudgeResponses == {"default_match", " Default_Match ", "json_partial_correct",
                   "genuine_prediction", "no_prediction", "incorrect", "", "unsure"}
JudgeFailure == "<raise>"
\* text.strip().lower() on the responses of the model
StripLower(text) == IF text = " Default_Match " THEN "default_match" ELSE text

\* CallLlmForMatchAnalysis with the failed call folded into "incorrect"
CallLlmForMatchAnalysis_FailIncorrect(llm, answer) ==
    IF ~llm THEN "incorrect"
    ELSE IF answer = JudgeFailure THEN "incorrect"
    ELSE StripLower(answer)

\* _call_llm_for_match_analysis, given how the generate_content call ended
CallLlmForMatchAnalysis(llm, answer) ==
    IF ~llm THEN "incorrect"
    ELSE IF answer = JudgeFailure THEN "llm_error"
    ELSE StripLower(answer)

Outcome(kind, status, mt) == [kind |-> kind, status |-> status, mt |-> mt]

\* ToggleRule comparing the whole documents instead of the 'hidden' values
ToggleRule_WholeDocument(gt_str, pr_str) ==
    LET gt_json == Loads(gt_str).val
        pr_json == Loads(pr_str).val
        hidden == VWord("hidden")
    IN IF PyIn(hidden, gt_json) /\ PyIn(hidden, pr_json)
       THEN IF gt_json.t # "dict" \/ pr_json.t # "dict"
            THEN Outcome("raise", "", "")
            ELSE IF PyEq(gt_json, pr_json)
                 THEN Outcome("return", MATCH, "toggle_match_hidden_only")
                 ELSE Outcome("return", MISMATCH, "incorrect_toggle_hidden_mismatch")
       ELSE Outcome("none", "", "")

\* the toggle rule of _determine_match_status on two texts that are JSON:
\* "none" when the rule does not decide, "raise" for the TypeError of
\* indexing a list with 'hidden'
ToggleRule(gt_str, pr_str) ==
    LET gt_json == Loads(gt_str).val
        pr_json == Loads(pr_str).val
        hidden == VWord("hidden")
    IN IF PyIn(hidden, gt_json) /\ PyIn(hidden, pr_json)
       THEN IF gt_json.t # "dict" \/ pr_json.t # "dict"
            THEN Outcome("raise", "", "")
            ELSE IF PyEq(DictGet(gt_json, "hidden"), DictGet(pr_json, "hidden"))
                 THEN Outcome("return", MATCH, "toggle_match_hidden_only")
                 ELSE Outcome("return", MISMATCH, "incorrect_toggle_hidden_mismatch")
       ELSE Outcome("none", "", "")

\* DetermineMatchStatus with the toggle rule tried before exact equality
DetermineMatchStatus_ToggleFirst(variant, llm, field_name, gt_value, pr_value) ==
    LET gt_str == Strip(Str(gt_value))
        pr_str == Strip(Str(pr_value))
        toggle == IF HasTogglePrefix(field_name) /\ IsJsonString(gt_str) /\ IsJsonString(pr_str)
                  THEN ToggleRule(gt_str, pr_str)
                  ELSE Outcome("none", "", "")
    IN IF toggle.kind # "none" THEN toggle
       ELSE IF gt_str = pr_str THEN Outcome("return", MATCH, "exact_match")
       ELSE IF /\ IsJsonString(gt_str) /\ IsJsonString(pr_str)
               /\ CompareJsonValues(variant, gt_str, pr_str)
            THEN Outcome("return", MATCH, "json_partial_match")
       ELSE IF llm THEN Outcome("judge", "", "")
       ELSE Outcome("return", MISMATCH, "incorrect")

\* DetermineMatchStatus that asks a configured judge before trying the JSON
\* equivalence
DetermineMatchStatus_JudgeBeforeJson(variant, llm, field_name, gt_value, pr_value) ==
    LET gt_str == Strip(Str(gt_value))
        pr_str == Strip(Str(pr_value))
        toggle == IF HasTogglePrefix(field_name) /\ IsJsonString(gt_str) /\ IsJsonString(pr_str)
                  THEN ToggleRule(gt_str, pr_str)
                  ELSE Outcome("none", "", "")
    IN IF gt_str = pr_str THEN Outcome("return", MATCH, "exact_match")
       ELSE IF toggle.kind # "none" THEN toggle
       ELSE IF llm THEN Outcome("judge", "", "")
       ELSE IF /\ IsJsonString(gt_str) /\ IsJsonString(pr_str)
               /\ CompareJsonValues(variant, gt_str, pr_str)
            THEN Outcome("return", MATCH, "json_partial_match")
       ELSE Outcome("return", MISMATCH, "incorrect")

\* DetermineMatchStatus in which two JSON texts that are not equivalent are a
\* final mismatch
DetermineMatchStatus_JsonMismatchFinal(variant, llm, field_name, gt_value, pr_value) ==
    LET gt_str == Strip(Str(gt_value))
        pr_str == Strip(Str(pr_value))
        toggle == IF HasTogglePrefix(field_name) /\ IsJsonString(gt_str) /\ IsJsonString(pr_str)
                  THEN ToggleRule(gt_str, pr_str)
                  ELSE Outcome("none", "", "")
    IN IF gt_str = pr_str THEN Outcome("return", MATCH, "exact_match")
       ELSE IF toggle.kind # "none" THEN toggle
       ELSE IF IsJsonString(gt_str) /\ IsJsonString(pr_str)
            THEN IF CompareJsonValues(variant, gt_str, pr_str)
                 THEN Outcome("return", MATCH, "json_partial_match")
                 ELSE Outcome("return", MISMATCH, "incorrect")
       ELSE IF llm THEN Outcome("judge", "", "")
       ELSE Outcome("return", MISMATCH, "incorrect")

\* DetermineMatchStatus that calls the judge whether or not one is configured
DetermineMatchStatus_AlwaysJudge(variant, llm, field_name, gt_value, pr_value) ==
    LET gt_str == Strip(Str(gt_value))
        pr_str == Strip(Str(pr_value))
        toggle == IF HasTogglePrefix(field_name) /\ IsJsonString(gt_str) /\ IsJsonString(pr_str)
                  THEN ToggleRule(gt_str, pr_str)
                  ELSE Outcome("none", "", "")
    IN IF gt_str = pr_str THEN Outcome("return", MATCH, "exact_match")
       ELSE IF toggle.kind # "none" THEN toggle
       ELSE IF /\ IsJsonString(gt_str) /\ IsJsonString(pr_str)
               /\ CompareJsonValues(variant, gt_str, pr_str)
            THEN Outcome("return", MATCH, "json_partial_match")
       ELSE Outcome("judge", "", "")

\* _determine_match_status up to the judge: kind "return" is a returned
\* (status, match type), "judge" the point where the judge is called,
\* "raise" an exception leaving the method
DetermineMatchStatus(variant, llm, field_name, gt_value, pr_value) ==
    LET gt_str == Strip(Str(gt_value))
        pr_str == Strip(Str(pr_value))
        toggle == IF HasTogglePrefix(field_name) /\ IsJsonString(gt_str) /\ IsJsonString(pr_str)
                  THEN ToggleRule(gt_str, pr_str)
                  ELSE Outcome("none", "", "")
    IN IF gt_str = pr_str THEN Outcome("return", MATCH, "exact_match")
       ELSE IF toggle.kind # "none" THEN toggle
       ELSE IF /\ IsJsonString(gt_str) /\ IsJsonString(pr_str)
               /\ CompareJsonValues(variant, gt_str, pr_str)
            THEN Outcome("return", MATCH, "json_partial_match")
       ELSE IF llm THEN Outcome("judge", "", "")
       ELSE Outcome("return", MISMATCH, "incorrect")

\* the return after the judge was called
JudgeOutcome(variant, llm, answer) ==
    LET llm_result == CallLlmForMatchAnalysis(llm, answer) IN
    IF llm_result \in MatchLabels(variant)
    THEN Outcome("return", MATCH, llm_result)
    ELSE Outcome("return", MISMATCH, llm_result)

\* the match type written when the field is not in both records
DefaultMatchType(variant) == IF variant = "pipelining_script" THEN "N" ELSE "N/A"
\* the match type of a toggle field the reference hides and the candidate omits
HiddenAbsentMatchType(variant) ==
    IF variant = "pipelining_script" THEN MATCH ELSE "correctly_absent_as_hidden"

\* the branch "gt_present and not pr_present" of the drivers
GtOnlyOutcome(variant, field, gt_value) ==
    LET gt_str == FormatValue(gt_value)
        gt_json == Loads(gt_str).val
    IN IF HasTogglePrefix(field) /\ IsJsonString(gt_str)
       THEN IF gt_json.t # "dict" THEN Outcome("raise", "", "")
            ELSE IF DictGet(gt_json, "hidden") = VBool(TRUE)
                 THEN Outcome("return", GT_ONLY, HiddenAbsentMatchType(variant))
                 ELSE Outcome("return", GT_ONLY, DefaultMatchType(variant))
       ELSE Outcome("return", GT_ONLY, DefaultMatchType(variant))

\* PairOutcome without the last branch of the chain: both absent keeps the
\* initial status
PairOutcome_NoBothAbsentBranch(variant, llm, field, gt_present, gt_value, pr_present, pr_value) ==
    IF gt_present /\ pr_present
    THEN DetermineMatchStatus(variant, llm, field, gt_value, pr_value)
    ELSE IF gt_present /\ ~pr_present THEN GtOnlyOutcome(variant, field, gt_value)
    ELSE IF ~gt_present /\ pr_present
         THEN Outcome("return", PR_ONLY, DefaultMatchType(variant))
    ELSE Outcome("return", "", DefaultMatchType(variant))

\* PairOutcome where the "none" shortcut is not overwritten by the chain
PairOutcome_NoneShortcut(variant, llm, field, gt_present, gt_value, pr_present, pr_value) ==
    IF pr_value = VWord("none") THEN Outcome("return", BOTH_ABSENT, "N/A")
    ELSE IF gt_present /\ pr_present
    THEN DetermineMatchStatus(variant, llm, field, gt_value, pr_value)
    ELSE IF gt_present /\ ~pr_present THEN GtOnlyOutcome(variant, field, gt_value)
    ELSE IF ~gt_present /\ pr_present
         THEN Outcome("return", PR_ONLY, DefaultMatchType(variant))
    ELSE Outcome("return", BOTH_ABSENT, DefaultMatchType(variant))

\* the status and match type of one (field, candidate) pair up to the judge
PairOutcome(variant, llm, field, gt_present, gt_value, pr_present, pr_value) ==
    LET initial == IF variant = "jyotsana_code"
                   THEN (IF pr_value = VWord("none")
                         THEN Outcome("return", BOTH_ABSENT, "N/A")
                         ELSE Outcome("unbound", "", ""))
                   ELSE Outcome("return", "", DefaultMatchType(variant))
    IN IF gt_present /\ pr_present
       THEN DetermineMatchStatus(variant, llm, field, gt_value, pr_value)
       ELSE IF gt_present /\ ~pr_present THEN GtOnlyOutcome(variant, field, gt_value)
       ELSE IF ~gt_present /\ pr_present
            THEN Outcome("return", PR_ONLY, DefaultMatchType(variant))
       ELSE IF ~gt_present /\ ~pr_present
            THEN Outcome("return", BOTH_ABSENT, DefaultMatchType(variant))
       ELSE initial

(***************************************************************************)
(* Record normalisation and the field universe.                            *)
(***************************************************************************)
\* key.lower() on the attribute names of the model
Lower(k) ==
    CASE k = "planName" -> "planname"
      [] k = "Rules" -> "rules"
      [] k = "fileTypeId" -> "filetypeid"
      [] k = "fileTransferFields" -> "filetransferfields"
      [] k = "FileTransferFields" -> "filetransferfields"
      [] k = "Deleted" -> "deleted"
      [] k = "Suggestions" -> "suggestions"
      [] OTHER -> k

\* IGNORED_FIELDS
IGNORED_FIELDS ==
    {"filedestination", "filename", "lookback", "integrationmode",
     "notificationemailaddress", "notificationstart", "notificationwarning",
     "notificationfailure", "notificationsuccess", "notificationcreateticket",
     "requiresfileinput", "eventinginfo", "eventbasedtriggers",
     "publishingconfiguration", "integrationid", "tenantid",
     "integrationname", "vendor", "filetypeid", "customername",
     "createddate", "updateddate", "deleted", "runtype",
     "runautomatically", "cron", "_source_file", "_tenant_id",
     "ui_statusmap", "globaltenantid"}

\* a normalised record is a function from lower-case names to values
EmptyMap == [x \in {} |-> VNone]
MapPut(m, k, v) == [x \in (DOMAIN m) \cup {k} |-> IF x = k THEN v ELSE m[x]]
MapGet(m, k) == IF k \in DOMAIN m THEN m[k] ELSE VNone

\* bool(v)
Truthy(v) ==
    CASE v.t = "none" -> FALSE
      [] v.t = "bool" -> v.b
      [] v.t = "int" -> v.n # 0
      [] v.t = "str" -> v.txt # <<>>
      [] v.t = "list" -> v.items # <<>>
      [] v.t = "dict" -> v.keys # <<>>

RECURSIVE GtTopLevel(_, _, _)
\* the loop over instance.items() of _load_ground_truth_data, from item i on
GtTopLevel(instance, i, acc) ==
    IF i > Len(instance.keys) THEN acc
    ELSE LET key == instance.keys[i]
             value == instance.items[i]
         IN IF Lower(key) \notin {"filetransferfields", "deleted"} /\ value # VNone
            THEN GtTopLevel(instance, i + 1, MapPut(acc, Lower(key), value))
            ELSE GtTopLevel(instance, i + 1, acc)

\* field.get('key') and field_name.lower() work for this entry
EntryLoads(field) ==
    /\ field.t = "dict"
    /\ Truthy(DictGet(field, "key")) => DictGet(field, "key").t = "str"

RECURSIVE GtEmbedded(_, _, _)
\* the loop over instance['fileTransferFields'], from entry i on
GtEmbedded(fields, i, acc) ==
    IF i > Len(fields.items) THEN acc
    ELSE LET field_name == DictGet(fields.items[i], "key")
             field_value == DictGet(fields.items[i], "value")
         IN IF Truthy(field_name)
            THEN GtEmbedded(fields, i + 1, MapPut(acc, Lower(AtomOf(field_name)), field_value))
            ELSE GtEmbedded(fields, i + 1, acc)

\* LoadGroundTruthData that writes the top-level attributes over the
\* embedded entries
LoadGroundTruthData_TopLevelLast(file) ==
    IF ~file.readable \/ file.doc.t # "dict" THEN EmptyMap
    ELSE LET instance == file.doc
             fields == DictGet(instance, "fileTransferFields")
         IN IF HasKey(instance, "fileTransferFields") /\ fields.t = "list"
            THEN IF \A i \in 1..Len(fields.items) : EntryLoads(fields.items[i])
                 THEN GtTopLevel(instance, 1, GtEmbedded(fields, 1, EmptyMap))
                 ELSE EmptyMap
            ELSE GtTopLevel(instance, 1, EmptyMap)

\* _load_ground_truth_data; file = [readable, doc]; any exception gives {}
LoadGroundTruthData(file) ==
    IF ~file.readable \/ file.doc.t # "dict" THEN EmptyMap
    ELSE LET instance == file.doc
             top == GtTopLevel(instance, 1, EmptyMap)
             fields == DictGet(instance, "fileTransferFields")
         IN IF HasKey(instance, "fileTransferFields") /\ fields.t = "list"
            THEN IF \A i \in 1..Len(fields.items) : EntryLoads(fields.items[i])
                 THEN GtEmbedded(fields, 1, top)
                 ELSE EmptyMap
            ELSE top

RECURSIVE PrTopLevel(_, _, _)
\* the loop over data.items() of _load_prediction_data
PrTopLevel(data, i, acc) ==
    IF i > Len(data.keys) THEN acc
    ELSE IF Lower(data.keys[i]) # "suggestions"
         THEN PrTopLevel(data, i + 1, MapPut(acc, Lower(data.keys[i]), data.items[i]))
         ELSE PrTopLevel(data, i + 1, acc)

RECURSIVE PrSuggestions(_, _, _)
\* the loop over data['suggestions'].items()
PrSuggestions(sugg, i, acc) ==
    IF i > Len(sugg.keys) THEN acc
    ELSE PrSuggestions(sugg, i + 1, MapPut(acc, Lower(sugg.keys[i]), sugg.items[i]))

\* LoadPredictionData that writes the top-level attributes over the
\* suggestions
LoadPredictionData_TopLevelLast(file) ==
    IF ~file.readable \/ file.doc.t # "dict" THEN EmptyMap
    ELSE LET data == file.doc
         IN IF HasKey(data, "suggestions") /\ DictGet(data, "suggestions").t = "dict"
            THEN PrTopLevel(data, 1, PrSuggestions(DictGet(data, "suggestions"), 1, EmptyMap))
            ELSE PrTopLevel(data, 1, EmptyMap)

\* _load_prediction_data
LoadPredictionData(file) ==
    IF ~file.readable \/ file.doc.t # "dict" THEN EmptyMap
    ELSE LET data == file.doc
             top == PrTopLevel(data, 1, EmptyMap)
         IN IF HasKey(data, "suggestions") /\ DictGet(data, "suggestions").t = "dict"
            THEN PrSuggestions(DictGet(data, "suggestions"), 1, top)
            ELSE top

\* the lower-case names of the model in ascending code-point order
NameOrder == <<"filetypeid", "planname", "rules", "toggle-x", "zeta">>
RECURSIVE SortedFrom(_, _)
SortedFrom(S, i) ==
    IF i > Len(NameOrder) THEN <<>>
    ELSE IF NameOrder[i] \in S THEN <<NameOrder[i]>> \o SortedFrom(S, i + 1)
    ELSE SortedFrom(S, i + 1)
\* Sorted in descending order
Sorted_Descending(S) ==
    LET asc == SortedFrom(S, 1) IN [i \in 1..Len(asc) |-> asc[Len(asc) + 1 - i]]

\* sorted(S) for a set of names
Sorted(S) == SortedFrom(S, 1)

\* AllFieldsToCheck built from the keys of the records alone
AllFieldsToCheck_RecordsOnly(exhaustive, gt, prs) ==
    (DOMAIN gt) \cup UNION {DOMAIN prs[i] : i \in 1..Len(prs)}

\* all_fields_to_check: the catalogue and the keys of every record
AllFieldsToCheck(exhaustive, gt, prs) ==
    exhaustive \cup (DOMAIN gt) \cup UNION {DOMAIN prs[i] : i \in 1..Len(prs)}

\* FinalFields that filters the keys of the records and then adds the
\* catalogue
FinalFields_IgnoreBeforeUnion(exhaustive, gt, prs) ==
    Sorted(exhaustive \cup
           {f \in AllFieldsToCheck({}, gt, prs) : Lower(f) \notin IGNORED_FIELDS})

\* final_fields
FinalFields(exhaustive, gt, prs) ==
    Sorted({f \in AllFieldsToCheck(exhaustive, gt, prs) : Lower(f) \notin IGNORED_FIELDS})

(***************************************************************************)
(* The inputs of a run: one scored field with a value pool, placed flat    *)
(* (top-level attributes) or nested (fileTransferFields / suggestions),    *)
(* and an optional second candidate.                                       *)
(***************************************************************************)
\* the str holding the JSON text of v
JsonStr(v) == VStr(Dumps(v))
Hidden(b) == VDict(<<"hidden">>, <<VBool(b)>>)
HiddenAnd(b, n) == VDict(<<"hidden", "a">>, <<VBool(b), VInt(n)>>)
A(n) == VDict(<<"a">>, <<VInt(n)>>)
NestedA == VDict(<<"a">>, <<VList(<<VInt(1)>>)>>)

TogglePool ==
    {JsonStr(Hidden(TRUE)), JsonStr(HiddenAnd(TRUE, 1)), JsonStr(HiddenAnd(FALSE, 1)),
     JsonStr(HiddenAnd(FALSE, 2)), JsonStr(A(1)), Hidden(TRUE),
     JsonStr(VDict(<<"hidden">>, <<VInt(1)>>)),
     VStr(<<WS>> \o Dumps(Hidden(TRUE))),
     JsonStr(VList(<<VWord("hidden")>>)),
     JsonStr(VList(<<VWord("hidden"), VWord("hidden")>>))}

RulesPool ==
    {JsonStr(VList(<<A(1), A(2)>>)), JsonStr(VList(<<A(2), A(1)>>)),
     JsonStr(VList(<<A(1), A(1), A(2)>>)),
     JsonStr(VList(<<VInt(1), VInt(2)>>)), JsonStr(VList(<<VInt(2), VInt(1)>>)),
     JsonStr(VList(<<VInt(1), VInt(1), VInt(2)>>)),
     JsonStr(VList(<<NestedA>>)), JsonStr(VList(<<NestedA, NestedA>>)),
     JsonStr(VDict(<<"a", "b">>, <<VInt(1), VInt(2)>>)),
     JsonStr(VDict(<<"b", "a">>, <<VInt(2), VInt(1)>>)),
     VList(<<A(1), A(2)>>), VList(<<A(2), A(1)>>),
     VWord("ACME_A"), VWord("ACME_B"), VStr(<<WS, W("ACME_A")>>),
     VWord("none"), VWord("None"), VNone, VWord(""), VInt(1)}

ScoredFields == {"toggle-x", "rules"}
Pool(f) == IF f = "toggle-x" THEN TogglePool ELSE RulesPool
\* the attribute name a record uses for the field
RawKey(f) == IF f = "rules" THEN "Rules" ELSE f

Absent == [present |-> FALSE, value |-> VNone]
Present(v) == [present |-> TRUE, value |-> v]
Options(f) == {Absent} \cup {Present(v) : v \in Pool(f)}
Layouts == {"flat", "nested"}

File(doc) == [readable |-> TRUE, doc |-> doc]
Unreadable == [readable |-> FALSE, doc |-> VNone]

Entry(k, v) == VDict(<<"key", "value">>, <<VWord(k), v>>)

\* a ground-truth record: an ignored attribute, the scored field, the embedded
\* list; the nested layout also holds the attribute zeta
GtDoc(layout, f, opt) ==
    LET base == IF layout = "nested"
                THEN VDict(<<"fileTypeId", "zeta">>, <<VWord("ft1"), VWord("z0")>>)
                ELSE VDict(<<"fileTypeId">>, <<VWord("ft1")>>)
        top == IF opt.present /\ layout = "flat"
               THEN DictPut(base, RawKey(f), opt.value) ELSE base
        embedded == IF opt.present /\ layout = "nested"
                    THEN <<Entry(RawKey(f), opt.value)>> ELSE <<>>
    IN DictPut(top, "fileTransferFields", VList(embedded))

\* a prediction record
PrDoc(layout, f, opt) ==
    IF ~opt.present THEN VDict(<<>>, <<>>)
    ELSE IF layout = "flat" THEN VDict(<<RawKey(f)>>, <<opt.value>>)
    ELSE VDict(<<"suggestions">>, <<VDict(<<RawKey(f)>>, <<opt.value>>)>>)

\* what a second prediction file may hold
SecondFiles ==
    {Unreadable,
     File(VDict(<<"zeta", "fileTypeId", "Rules", "toggle-x">>,
                <<VWord("z1"), VWord("ft2"), VWord("ACME_B"), JsonStr(A(2))>>))}

\* the field lists handed to the constructor, and the sets __init__ keeps
RawCatalogues == {{"planName", "fileTypeId"}}
Catalogues == {{Lower(k) : k \in c} : c \in RawCatalogues}

VARIABLES variant, llm_model, exhaustive_fields, gt_file, pr_files,
          pc, gt_data, pr_data_list, final_fields, fi, ci, row,
          report_data, judge_calls, written

\* what is kept about the comparisons made before the current one: their
\* number, the keys of their records, and the records, judge answers and
\* rows of the last of them
VARIABLES run, earlier_fields, previous

\* main's account loop: the account and the step it is at, the steps executed
\* so far with their results, the report files on disk, the frames collected
\* for the consolidated report, the answer to the local-prediction prompt,
\* the time-log file, and the calls of fetch_and_save_predictions so far
VARIABLES account, step, executed, report_files, all_tenants_report_data,
          run_local_prediction, time_log, calls

runs == <<run, earlier_fields, previous>>
main == <<account, step, executed, report_files, all_tenants_report_data,
          run_local_prediction, time_log, calls>>

\* the single-tenant script's fetch: the iterations asked for, the iteration
\* the loop is at, the paths saved so far, the iteration files on disk, the
\* outcomes of the requests sent, the list main received, and main's position
VARIABLES num_iterations, iteration_num, saved_files, disk_files, responses,
          prediction_file_paths, fetch_pc

\* the metrics calculators: the report rows (statuses) of each tenant, the
\* dictionary calculate_metrics_from_csv returned, and the per-tenant table
\* of metrics_calc.py
VARIABLES reports, metrics, summary

fetch == <<num_iterations, iteration_num, saved_files, disk_files, responses,
           prediction_file_paths, fetch_pc>>
calculators == <<reports, metrics, summary>>

\* everything outside the comparator object and the running comparison
outside == <<runs, main, fetch, calculators>>

vars == <<variant, llm_model, exhaustive_fields, gt_file, pr_files,
          pc, gt_data, pr_data_list, final_fields, fi, ci, row,
          report_data, judge_calls, written, outside>>

\* what a comparison never writes: the comparator's attributes, the files,
\* and the state outside the comparator
config == <<variant, llm_model, exhaustive_fields, gt_file, pr_files, outside>>

NoPrevious == [gt_data |-> EmptyMap, pr_data_list |-> <<>>, judge_calls |-> <<>>,
               report_data |-> <<>>]
\* the first comparison of a program run
FirstRun == run = 1 /\ earlier_fields = {} /\ previous = NoPrevious
\* the time-log file before any call wrote it
NoLog == [exists |-> FALSE, rows |-> <<>>]
\* no account loop is running
NoMain ==
    /\ account = 0
    /\ step = "none"
    /\ executed = <<>>
    /\ report_files = {}
    /\ all_tenants_report_data = <<>>
    /\ run_local_prediction = FALSE
    /\ time_log = NoLog
    /\ calls = <<>>
\* no fetch loop is running
NoFetch ==
    /\ num_iterations = 0
    /\ iteration_num = 0
    /\ saved_files = <<>>
    /\ disk_files = {}
    /\ responses = <<>>
    /\ prediction_file_paths = <<>>
    /\ fetch_pc = "none"
\* no report was handed to a metrics calculator
NoMetrics == [tenantId |-> 0, readable |-> FALSE, values |-> <<>>]
NoCalculators ==
    /\ reports = <<>>
    /\ metrics = NoMetrics
    /\ summary = [ok |-> FALSE, table |-> <<>>]
OutsideIdle == FirstRun /\ NoMain /\ NoFetch /\ NoCalculators

NoRow == [FieldName |-> "", Ground_Truth_Value |-> <<>>, cells |-> <<>>]
NewRow(field, gt) ==
    [FieldName |-> field, Ground_Truth_Value |-> FormatValue(MapGet(gt, field)), cells |-> <<>>]

\* a comparator right after __init__, with the files it will read
Init ==
    /\ variant \in Variants
    /\ llm_model \in BOOLEAN
    /\ exhaustive_fields \in Catalogues
    /\ \E l \in Layouts, f \in ScoredFields :
         \E g \in Options(f), p \in Options(f) :
            /\ gt_file \in {File(GtDoc(l, f, g)), Unreadable}
            /\ \/ pr_files = <<File(PrDoc(l, f, p))>>
               \/ /\ variant # "jyotsana_code"
                  /\ \E second \in SecondFiles : pr_files = <<File(PrDoc(l, f, p)), second>>
    /\ pc = "start"
    /\ gt_data = EmptyMap
    /\ pr_data_list = <<>>
    /\ final_fields = <<>>
    /\ fi = 0
    /\ ci = 0
    /\ row = NoRow
    /\ report_data = <<>>
    /\ judge_calls = <<>>
    /\ written = FALSE
    /\ OutsideIdle

\* the loads at the head of compare_single_prediction / compare_and_generate_report
LoadedGt == LoadGroundTruthData(gt_file)
LoadedPrs == [i \in 1..Len(pr_files) |-> LoadPredictionData(pr_files[i])]

\* "if not gt_data: return"
LoadAborts ==
    /\ pc = "start"
    /\ DOMAIN LoadedGt = {}
    /\ pc' = "aborted"
    /\ pr_data_list' = LoadedPrs
    /\ UNCHANGED <<config, gt_data, final_fields, fi, ci, row, report_data, judge_calls, written>>

\* Load that goes on whatever the reference load gave
Load_WithoutReference ==
    /\ pc = "start"
    /\ gt_data' = LoadedGt
    /\ pr_data_list' = LoadedPrs
    /\ final_fields' = FinalFields(exhaustive_fields, LoadedGt, LoadedPrs)
    /\ IF final_fields' = <<>>
       THEN pc' = "empty" /\ fi' = 0 /\ ci' = 0 /\ row' = NoRow
       ELSE pc' = "loop" /\ fi' = 1 /\ ci' = 1 /\ row' = NewRow(final_fields'[1], LoadedGt)
    /\ UNCHANGED <<config, report_data, judge_calls, written>>

\* Load that adds the fields it finds to the comparator's catalogue
Load_UpdatesCatalogue ==
    /\ pc = "start"
    /\ DOMAIN LoadedGt # {}
    /\ gt_data' = LoadedGt
    /\ pr_data_list' = LoadedPrs
    /\ exhaustive_fields' = exhaustive_fields \cup AllFieldsToCheck(exhaustive_fields, LoadedGt, LoadedPrs)
    /\ final_fields' = FinalFields(exhaustive_fields', LoadedGt, LoadedPrs)
    /\ IF final_fields' = <<>>
       THEN pc' = "empty" /\ fi' = 0 /\ ci' = 0 /\ row' = NoRow
       ELSE pc' = "loop" /\ fi' = 1 /\ ci' = 1 /\ row' = NewRow(final_fields'[1], LoadedGt)
    /\ UNCHANGED <<variant, llm_model, gt_file, pr_files, outside, report_data, judge_calls, written>>

\* the loads succeed and the field universe is built
Load ==
    /\ pc = "start"
    /\ DOMAIN LoadedGt # {}
    /\ gt_data' = LoadedGt
    /\ pr_data_list' = LoadedPrs
    /\ final_fields' = FinalFields(exhaustive_fields, LoadedGt, LoadedPrs)
    /\ IF final_fields' = <<>>
       THEN pc' = "empty" /\ fi' = 0 /\ ci' = 0 /\ row' = NoRow
       ELSE pc' = "loop" /\ fi' = 1 /\ ci' = 1 /\ row' = NewRow(final_fields'[1], LoadedGt)
    /\ UNCHANGED <<config, report_data, judge_calls, written>>

\* the (field, candidate) pair the loop is at
field == final_fields[fi]
gt_present == field \in DOMAIN gt_data
gt_value == MapGet(gt_data, field)
pr_present == field \in DOMAIN pr_data_list[ci]
pr_value == MapGet(pr_data_list[ci], field)
Pair == PairOutcome(variant, llm_model, field, gt_present, gt_value, pr_present, pr_value)

Cell(o) == [Predicted_Value |-> FormatValue(pr_value), Status |-> o.status, Match_Type |-> o.mt]

\* the status and match type are stored in the row; after the last candidate
\* the row is appended and the loop moves to the next field
Store(o) ==
    LET filled == [row EXCEPT !.cells = Append(@, Cell(o))] IN
    IF ci < Len(pr_data_list)
    THEN /\ row' = filled
         /\ ci' = ci + 1
         /\ UNCHANGED <<fi, report_data, pc>>
    ELSE /\ report_data' = Append(report_data, filled)
         /\ ci' = 1
         /\ fi' = fi + 1
         /\ IF fi < Len(final_fields)
            THEN row' = NewRow(final_fields[fi + 1], gt_data) /\ pc' = "loop"
            ELSE row' = NoRow /\ pc' = "write"

\* one pair decided without the judge
Classify ==
    /\ pc = "loop"
    /\ Pair.kind = "return"
    /\ Store(Pair)
    /\ UNCHANGED <<config, gt_data, pr_data_list, final_fields, judge_calls, written>>

\* ClassifyWithJudge that calls the judge a second time when a call fails
ClassifyWithJudge_Retry ==
    /\ pc = "loop"
    /\ Pair.kind = "judge"
    /\ \E answer \in JudgeResponses \cup {JudgeFailure} :
          /\ judge_calls' =
                IF answer = JudgeFailure
                THEN judge_calls \o <<[field |-> field, version |-> ci, answer |-> JudgeFailure],
                                      [field |-> field, version |-> ci, answer |-> JudgeFailure]>>
                ELSE Append(judge_calls, [field |-> field, version |-> ci, answer |-> answer])
          /\ Store(JudgeOutcome(variant, llm_model, answer))
    /\ UNCHANGED <<config, gt_data, pr_data_list, final_fields, written>>

\* one pair decided by a call of the judge, which answers or fails
ClassifyWithJudge ==
    /\ pc = "loop"
    /\ Pair.kind = "judge"
    /\ \E answer \in JudgeResponses \cup {JudgeFailure} :
          /\ judge_calls' = Append(judge_calls,
                                   [field |-> field, version |-> ci, answer |-> answer])
          /\ Store(JudgeOutcome(variant, llm_model, answer))
    /\ UNCHANGED <<config, gt_data, pr_data_list, final_fields, written>>

\* an exception leaves the comparison: no report is written
ClassifyRaises ==
    /\ pc = "loop"
    /\ Pair.kind = "raise"
    /\ pc' = "failed"
    /\ UNCHANGED <<config, gt_data, pr_data_list, final_fields, fi, ci, row,
                   report_data, judge_calls, written>>

\* the report is written
WriteReport ==
    /\ pc = "write"
    /\ written' = TRUE
    /\ pc' = "done"
    /\ UNCHANGED <<config, gt_data, pr_data_list, final_fields, fi, ci, row,
                   report_data, judge_calls>>

\* writing the CSV file fails; the exception is caught and printed
WriteReportFails ==
    /\ pc = "write"
    /\ pc' = "done"
    /\ UNCHANGED <<config, gt_data, pr_data_list, final_fields, fi, ci, row,
                   report_data, judge_calls, written>>

Next ==
    \/ LoadAborts
    \/ Load
    \/ Classify
    \/ ClassifyWithJudge
    \/ ClassifyRaises
    \/ WriteReport
    \/ WriteReportFails

Spec == Init /\ [][Next]_vars

(***************************************************************************)
(* Several comparisons in one program run: main makes a comparator for     *)
(* every account from the same catalogue and the same judge, and each      *)
(* call of the comparison method starts with fresh local records, field    *)
(* list and rows.                                                          *)
(***************************************************************************)
MaxRuns == 2

\* the reference and candidate files of the accounts
RunFiles ==
    {<<File(GtDoc("nested", "rules", Present(VWord("ACME_A")))),
       <<File(PrDoc("flat", "rules", Present(VWord("ACME_B"))))>>>>,
     <<File(GtDoc("flat", "toggle-x", Present(JsonStr(Hidden(TRUE))))),
       <<File(PrDoc("flat", "toggle-x", Present(JsonStr(HiddenAnd(TRUE, 1)))))>>>>,
     <<File(GtDoc("flat", "toggle-x", Present(JsonStr(Hidden(TRUE))))),
       <<File(PrDoc("flat", "toggle-x", Present(JsonStr(VList(<<VWord("hidden")>>)))))>>>>,
     <<Unreadable,
       <<File(PrDoc("nested", "rules", Present(VWord("ACME_B"))))>>>>}

\* the keys of the records of the comparison that has just ended
KeysOfRun ==
    DOMAIN gt_data \cup UNION {DOMAIN pr_data_list[i] : i \in 1..Len(pr_data_list)}

\* NextRun that keeps the rows of the comparison before
NextRun_KeepsRows ==
    /\ pc \in {"done", "aborted", "empty"}
    /\ run < MaxRuns
    /\ \E files \in RunFiles : gt_file' = files[1] /\ pr_files' = files[2]
    /\ run' = run + 1
    /\ earlier_fields' = earlier_fields \cup KeysOfRun
    /\ previous' = [gt_data |-> gt_data, pr_data_list |-> pr_data_list,
                    judge_calls |-> judge_calls, report_data |-> report_data]
    /\ pc' = "start"
    /\ gt_data' = EmptyMap
    /\ pr_data_list' = <<>>
    /\ final_fields' = <<>>
    /\ fi' = 0
    /\ ci' = 0
    /\ row' = NoRow
    /\ judge_calls' = <<>>
    /\ written' = FALSE
    /\ UNCHANGED <<variant, llm_model, exhaustive_fields, report_data, main, fetch, calculators>>

\* the comparison returned; main goes to the next account and calls the
\* comparison for it, whose local variables start empty
NextRun ==
    /\ pc \in {"done", "aborted", "empty"}
    /\ run < MaxRuns
    /\ \E files \in RunFiles : gt_file' = files[1] /\ pr_files' = files[2]
    /\ run' = run + 1
    /\ earlier_fields' = earlier_fields \cup KeysOfRun
    /\ previous' = [gt_data |-> gt_data, pr_data_list |-> pr_data_list,
                    judge_calls |-> judge_calls, report_data |-> report_data]
    /\ pc' = "start"
    /\ gt_data' = EmptyMap
    /\ pr_data_list' = <<>>
    /\ final_fields' = <<>>
    /\ fi' = 0
    /\ ci' = 0
    /\ row' = NoRow
    /\ report_data' = <<>>
    /\ judge_calls' = <<>>
    /\ written' = FALSE
    /\ UNCHANGED <<variant, llm_model, exhaustive_fields, main, fetch, calculators>>

InitRuns ==
    /\ variant \in Variants
    /\ llm_model \in BOOLEAN
    /\ exhaustive_fields \in Catalogues
    /\ \E files \in RunFiles : gt_file = files[1] /\ pr_files = files[2]
    /\ pc = "start"
    /\ gt_data = EmptyMap
    /\ pr_data_list = <<>>
    /\ final_fields = <<>>
    /\ fi = 0
    /\ ci = 0
    /\ row = NoRow
    /\ report_data = <<>>
    /\ judge_calls = <<>>
    /\ written = FALSE
    /\ OutsideIdle

NextRuns ==
    \/ LoadAborts
    \/ Load
    \/ Classify
    \/ ClassifyWithJudge
    \/ ClassifyRaises
    \/ WriteReport
    \/ WriteReportFails
    \/ NextRun

SpecRuns == InitRuns /\ [][NextRuns]_vars

(***************************************************************************)
(* main's loop over the accounts (jyotsana_code, pipeline_4): tenant-id    *)
(* lookup, ground-truth creation, upload, tenant-info lookup (pipeline_4), *)
(* prediction fetch with its time log, comparison by a fresh comparator,   *)
(* collection of the report file.                                          *)
(***************************************************************************)
MaxAccounts == 2
Accounts == 1..MaxAccounts

\* everything of the comparator and its running comparison
comparison == <<variant, llm_model, exhaustive_fields, gt_file, pr_files,
                pc, gt_data, pr_data_list, final_fields, fi, ci, row,
                report_data, judge_calls, written>>

\* the rows of the time-log file
HeaderRow == [kind |-> "header", call |-> 0]
TimingRow(k) == [kind |-> "timing", call |-> k]

\* LogPredictionTime that writes the header before every timing row
LogPredictionTime_HeaderEachTime(log, k) ==
    [exists |-> TRUE, rows |-> log.rows \o <<HeaderRow, TimingRow(k)>>]

\* log_prediction_time: the header is written when the file did not exist,
\* then the timing row is appended
LogPredictionTime(log, k) ==
    [exists |-> TRUE,
     rows |-> (IF log.exists THEN log.rows ELSE <<HeaderRow>>) \o <<TimingRow(k)>>]

\* how a call of fetch_and_save_predictions ends: requests.post raised, the
\* response had an error status, its body was no JSON, or the file was saved
FetchOutcomes == {"request_raised", "error_status", "bad_json", "saved"}

\* the time log and the call history after one call of
\* fetch_and_save_predictions: the call is logged once the request returned
AfterCall(st, endpoint, outcome) ==
    [log |-> IF outcome = "request_raised" THEN st.log
             ELSE LogPredictionTime(st.log, Len(st.calls) + 1),
     calls |-> Append(st.calls, [account |-> account, endpoint |-> endpoint,
                                 outcome |-> outcome])]

\* the step s of the current account was executed with result ok
Executed(s, ok) ==
    executed' = Append(executed, [account |-> account, step |-> s, ok |-> ok])

\* "continue", or the end of the loop body: the loop goes to the next account
Continue ==
    /\ account' = account + 1
    /\ step' = IF account < MaxAccounts THEN "tenant_id" ELSE "consolidate"

\* a step that returns a value main tests: falsy skips the account
TestedStep(s, next) ==
    /\ \E ok \in BOOLEAN :
          /\ Executed(s, ok)
          /\ IF ok THEN step' = next /\ account' = account ELSE Continue
    /\ UNCHANGED <<comparison, runs, fetch, calculators, report_files,
                   all_tenants_report_data, run_local_prediction, time_log, calls>>

GetTenantIdFromCsv ==
    /\ step = "tenant_id"
    /\ TestedStep("tenant_id", "ground_truth")
CreateGroundTruthFromInstances ==
    /\ step = "ground_truth"
    /\ TestedStep("ground_truth", "upload")
\* jyotsana_code uses a hardcoded tenant_info and goes on to the fetch
UploadAccountStructureFile ==
    /\ step = "upload"
    /\ TestedStep("upload", IF variant = "pipeline_4" THEN "tenant_info" ELSE "fetch")
FindTenantInfo ==
    /\ step = "tenant_info"
    /\ TestedStep("tenant_info", "fetch")

\* fetch_and_save_predictions for the main endpoint, the optional call for
\* the local endpoint, and the construction of the account's comparator
FetchAndSavePredictions ==
    /\ step = "fetch"
    /\ \E outcome \in FetchOutcomes :
          LET first == AfterCall([log |-> time_log, calls |-> calls], "main", outcome) IN
          /\ Executed("fetch", outcome = "saved")
          /\ IF outcome # "saved"
             THEN /\ time_log' = first.log
                  /\ calls' = first.calls
                  /\ Continue
                  /\ UNCHANGED <<gt_file, pr_files, pc>>
             ELSE /\ \E local \in FetchOutcomes :
                        LET second == IF run_local_prediction
                                      THEN AfterCall(first, "local", local) ELSE first
                        IN time_log' = second.log /\ calls' = second.calls
                  /\ \E files \in RunFiles : gt_file' = files[1] /\ pr_files' = files[2]
                  /\ pc' = "start"
                  /\ step' = "compare"
                  /\ account' = account
    /\ UNCHANGED <<variant, llm_model, exhaustive_fields, gt_data, pr_data_list,
                   final_fields, fi, ci, row, report_data, judge_calls, written,
                   runs, fetch, calculators, report_files, all_tenants_report_data,
                   run_local_prediction>>

\* the comparison returned: "if os.path.exists(output_report_file)" the
\* report is read and collected; the comparator is dropped
CollectReport ==
    /\ step = "compare"
    /\ pc \in {"done", "aborted", "empty"}
    /\ report_files' = IF written THEN report_files \cup {account} ELSE report_files
    /\ all_tenants_report_data' =
          IF account \in report_files'
          THEN Append(all_tenants_report_data, [account |-> account, fresh |-> written])
          ELSE all_tenants_report_data
    /\ Executed("compare", written)
    /\ Continue
    /\ pc' = "idle"
    /\ gt_data' = EmptyMap
    /\ pr_data_list' = <<>>
    /\ final_fields' = <<>>
    /\ fi' = 0
    /\ ci' = 0
    /\ row' = NoRow
    /\ report_data' = <<>>
    /\ judge_calls' = <<>>
    /\ written' = FALSE
    /\ UNCHANGED <<variant, llm_model, exhaustive_fields, gt_file, pr_files,
                   runs, fetch, calculators, run_local_prediction, time_log, calls>>

\* after the loop the collected frames are concatenated and main returns
Consolidate ==
    /\ step = "consolidate"
    /\ step' = "finished"
    /\ UNCHANGED <<comparison, runs, fetch, calculators, account, executed, report_files,
                   all_tenants_report_data, run_local_prediction, time_log, calls>>

\* main before the first account; report files and a time log of an earlier
\* execution may be on disk
InitMain ==
    /\ variant \in {"jyotsana_code", "pipeline_4"}
    /\ llm_model \in BOOLEAN
    /\ exhaustive_fields \in Catalogues
    /\ gt_file = Unreadable
    /\ pr_files = <<>>
    /\ pc = "idle"
    /\ gt_data = EmptyMap
    /\ pr_data_list = <<>>
    /\ final_fields = <<>>
    /\ fi = 0
    /\ ci = 0
    /\ row = NoRow
    /\ report_data = <<>>
    /\ judge_calls = <<>>
    /\ written = FALSE
    /\ FirstRun
    /\ account = 1
    /\ step = "tenant_id"
    /\ executed = <<>>
    /\ report_files \in SUBSET {1}
    /\ all_tenants_report_data = <<>>
    /\ run_local_prediction \in BOOLEAN
    /\ time_log \in {NoLog, LogPredictionTime(NoLog, 0)}
    /\ calls = <<>>
    /\ NoFetch
    /\ NoCalculators

NextMain ==
    \/ GetTenantIdFromCsv
    \/ CreateGroundTruthFromInstances
    \/ UploadAccountStructureFile
    \/ FindTenantInfo
    \/ FetchAndSavePredictions
    \/ LoadAborts
    \/ Load
    \/ Classify
    \/ ClassifyWithJudge
    \/ ClassifyRaises
    \/ WriteReport
    \/ WriteReportFails
    \/ CollectReport
    \/ Consolidate

SpecMain == InitMain /\ [][NextMain]_vars

(***************************************************************************)
(* The single-tenant script (pipelining_script): the fetch loop over       *)
(* num_iterations requests, and main, which compares the saved files.      *)
(***************************************************************************)
MaxIterations == 2

\* FetchIteration that returns the paths saved so far when a request fails
FetchIteration_ReturnsSaved ==
    /\ fetch_pc = "fetching"
    /\ iteration_num <= num_iterations
    /\ \E outcome \in FetchOutcomes :
          /\ responses' = Append(responses, outcome)
          /\ IF outcome = "saved"
             THEN /\ disk_files' = disk_files \cup {iteration_num}
                  /\ saved_files' = Append(saved_files, iteration_num)
                  /\ iteration_num' = iteration_num + 1
                  /\ UNCHANGED <<prediction_file_paths, fetch_pc>>
             ELSE /\ prediction_file_paths' = saved_files
                  /\ fetch_pc' = "returned"
                  /\ UNCHANGED <<disk_files, saved_files, iteration_num>>
    /\ UNCHANGED <<comparison, runs, main, calculators, num_iterations>>

\* one iteration of the loop of fetch_and_save_predictions: the request is
\* sent; the body is saved as iter<n>.json and its path appended, or the
\* function returns [] on the first request that fails
FetchIteration ==
    /\ fetch_pc = "fetching"
    /\ iteration_num <= num_iterations
    /\ \E outcome \in FetchOutcomes :
          /\ responses' = Append(responses, outcome)
          /\ IF outcome = "saved"
             THEN /\ disk_files' = disk_files \cup {iteration_num}
                  /\ saved_files' = Append(saved_files, iteration_num)
                  /\ iteration_num' = iteration_num + 1
                  /\ UNCHANGED <<prediction_file_paths, fetch_pc>>
             ELSE /\ prediction_file_paths' = <<>>
                  /\ fetch_pc' = "returned"
                  /\ UNCHANGED <<disk_files, saved_files, iteration_num>>
    /\ UNCHANGED <<comparison, runs, main, calculators, num_iterations>>

\* the loop is over: "return saved_files"
FetchReturns ==
    /\ fetch_pc = "fetching"
    /\ iteration_num > num_iterations
    /\ prediction_file_paths' = saved_files
    /\ fetch_pc' = "returned"
    /\ UNCHANGED <<comparison, runs, main, calculators, num_iterations, iteration_num,
                   saved_files, disk_files, responses>>

\* "if not prediction_file_paths: return"
MainAborts ==
    /\ fetch_pc = "returned"
    /\ prediction_file_paths = <<>>
    /\ fetch_pc' = "aborted"
    /\ UNCHANGED <<comparison, runs, main, calculators, num_iterations, iteration_num,
                   saved_files, disk_files, responses, prediction_file_paths>>

\* main builds the comparator on the saved files and calls the comparison
MainCompares ==
    /\ fetch_pc = "returned"
    /\ prediction_file_paths # <<>>
    /\ \E files \in RunFiles, second \in SecondFiles :
          /\ gt_file' = files[1]
          /\ pr_files' = [i \in 1..Len(prediction_file_paths) |->
                             IF i = 1 THEN files[2][1] ELSE second]
    /\ pc' = "start"
    /\ fetch_pc' = "comparing"
    /\ UNCHANGED <<variant, llm_model, exhaustive_fields, gt_data, pr_data_list,
                   final_fields, fi, ci, row, report_data, judge_calls, written,
                   runs, main, calculators, num_iterations, iteration_num,
                   saved_files, disk_files, responses, prediction_file_paths>>

\* main right before the call of fetch_and_save_predictions
InitFetch ==
    /\ variant = "pipelining_script"
    /\ llm_model \in BOOLEAN
    /\ exhaustive_fields \in Catalogues
    /\ gt_file = Unreadable
    /\ pr_files = <<>>
    /\ pc = "idle"
    /\ gt_data = EmptyMap
    /\ pr_data_list = <<>>
    /\ final_fields = <<>>
    /\ fi = 0
    /\ ci = 0
    /\ row = NoRow
    /\ report_data = <<>>
    /\ judge_calls = <<>>
    /\ written = FALSE
    /\ FirstRun
    /\ NoMain
    /\ NoCalculators
    /\ num_iterations \in 0..MaxIterations
    /\ iteration_num = 1
    /\ saved_files = <<>>
    /\ disk_files = {}
    /\ responses = <<>>
    /\ prediction_file_paths = <<>>
    /\ fetch_pc = "fetching"

NextFetch ==
    \/ FetchIteration
    \/ FetchReturns
    \/ MainAborts
    \/ MainCompares
    \/ LoadAborts
    \/ Load
    \/ Classify
    \/ ClassifyWithJudge
    \/ ClassifyRaises
    \/ WriteReport
    \/ WriteReportFails

SpecFetch == InitFetch /\ [][NextFetch]_vars

(***************************************************************************)
(* The metrics calculators: calculate_metrics_from_csv of jyotsana_code on *)
(* one tenant's report, and the per-tenant calculator of metrics_calc.py   *)
(* on the consolidated report.  A report is the sequence of its Status_v1  *)
(* values; a ratio is kept in ten-thousandths.                             *)
(***************************************************************************)
MaxRows == 3
Tenants == 1..2

\* the number of rows with the given status
Count(rows, status) == Cardinality({i \in 1..Len(rows) : rows[i] = status})

\* n/d rounded to the nearest integer, ties to the even one: round(x, 4) and
\* the format "{x:.2%}" applied to x = n / (10000 * d)
RoundHalfEven(n, d) ==
    LET q == n \div d
        r == n % d
    IN IF 2 * r < d THEN q
       ELSE IF 2 * r > d THEN q + 1
       ELSE IF q % 2 = 0 THEN q ELSE q + 1

\* CalculateMetricsFromCsv with coverage taken over all rows of the report
CalculateMetricsFromCsv_CoverageOverTotal(file) ==
    LET rows == file.rows
        match == Count(rows, MATCH)
        mismatch == Count(rows, MISMATCH)
        coverage_numerator == match + mismatch
        coverage_denominator == Len(rows)
        accuracy_denominator == match + mismatch
    IN IF ~file.readable
       THEN [total_fields |-> 0, gt_present_pr_present_match |-> 0,
             gt_present_pr_present_mismatch |-> 0, gt_present_pr_absent |-> 0,
             gt_absent_pr_present |-> 0, gt_absent_pr_absent |-> 0,
             coverage |-> 0, accuracy |-> 0, extra_fields_count |-> 0]
       ELSE [total_fields |-> Len(rows),
             gt_present_pr_present_match |-> match,
             gt_present_pr_present_mismatch |-> mismatch,
             gt_present_pr_absent |-> Count(rows, GT_ONLY),
             gt_absent_pr_present |-> Count(rows, PR_ONLY),
             gt_absent_pr_absent |-> Count(rows, BOTH_ABSENT),
             coverage |-> IF coverage_denominator > 0
                          THEN RoundHalfEven(10000 * coverage_numerator, coverage_denominator)
                          ELSE 0,
             accuracy |-> IF accuracy_denominator > 0
                          THEN RoundHalfEven(10000 * match, accuracy_denominator)
                          ELSE 0,
             extra_fields_count |-> Count(rows, PR_ONLY)]

\* calculate_metrics_from_csv of jyotsana_code: the dictionary it returns
\* (without extra_fields_list); any exception gives the all-zero dictionary
CalculateMetricsFromCsv(file) ==
    LET rows == file.rows
        match == Count(rows, MATCH)
        mismatch == Count(rows, MISMATCH)
        coverage_numerator == match + mismatch
        coverage_denominator == coverage_numerator + Count(rows, GT_ONLY)
        accuracy_denominator == match + mismatch
    IN IF ~file.readable
       THEN [total_fields |-> 0, gt_present_pr_present_match |-> 0,
             gt_present_pr_present_mismatch |-> 0, gt_present_pr_absent |-> 0,
             gt_absent_pr_present |-> 0, gt_absent_pr_absent |-> 0,
             coverage |-> 0, accuracy |-> 0, extra_fields_count |-> 0]
       ELSE [total_fields |-> Len(rows),
             gt_present_pr_present_match |-> match,
             gt_present_pr_present_mismatch |-> mismatch,
             gt_present_pr_absent |-> Count(rows, GT_ONLY),
             gt_absent_pr_present |-> Count(rows, PR_ONLY),
             gt_absent_pr_absent |-> Count(rows, BOTH_ABSENT),
             coverage |-> IF coverage_denominator > 0
                          THEN RoundHalfEven(10000 * coverage_numerator, coverage_denominator)
                          ELSE 0,
             accuracy |-> IF accuracy_denominator > 0
                          THEN RoundHalfEven(10000 * match, accuracy_denominator)
                          ELSE 0,
             extra_fields_count |-> Count(rows, PR_ONLY)]

\* calculate_metrics_from_csv of metrics_calc.py: None when the file cannot
\* be read, else one row per tenantId of the file, the ratios formatted as
\* percentages with two decimals
MetricsCalc(file) ==
    LET Group(t) == SelectSeq(file.rows, LAMBDA r : r.tenantId = t)
        Statuses_(t) == [i \in 1..Len(Group(t)) |-> Group(t)[i].Status_v1]
        Percent(n, d) ==
            LET q == IF d > 0 THEN RoundHalfEven(10000 * n, d) ELSE 0
            IN [whole |-> q \div 100, hundredths |-> q % 100]
        Row(t) ==
            LET match == Count(Statuses_(t), MATCH)
                mismatch == Count(Statuses_(t), MISMATCH)
                gt_present_total == match + mismatch + Count(Statuses_(t), GT_ONLY)
            IN [Coverage |-> Percent(match + mismatch, gt_present_total),
                Accuracy |-> Percent(match, match + mismatch),
                Extra_Fields |-> Count(Statuses_(t), PR_ONLY)]
    IN IF ~file.readable THEN [ok |-> FALSE, table |-> <<>>]
       ELSE [ok |-> TRUE,
             table |-> [t \in {file.rows[i].tenantId : i \in 1..Len(file.rows)} |-> Row(t)]]

\* main of jyotsana_code, after the comparison of a tenant whose report file
\* exists: the metrics of the report, with the tenant's id added
CalculateMetrics ==
    /\ \E t \in Tenants, readable \in BOOLEAN :
          /\ reports[t] # <<>>
          /\ metrics' = [tenantId |-> t, readable |-> readable,
                         values |-> CalculateMetricsFromCsv([readable |-> readable,
                                                             rows |-> reports[t]])]
    /\ UNCHANGED <<comparison, runs, main, fetch, reports, summary>>

\* the script of metrics_calc.py on the consolidated report, which holds the
\* rows of every tenant's report under the tenant's id
CalculateSummary ==
    /\ \E readable \in BOOLEAN :
          LET consolidated ==
                 [i \in 1..Len(reports[1]) |-> [tenantId |-> 1, Status_v1 |-> reports[1][i]]]
                 \o [i \in 1..Len(reports[2]) |-> [tenantId |-> 2, Status_v1 |-> reports[2][i]]]
          IN summary' = MetricsCalc([readable |-> readable, rows |-> consolidated])
    /\ UNCHANGED <<comparison, runs, main, fetch, reports, metrics>>

\* the reports the comparisons of two tenants left
InitMetrics ==
    /\ variant = "jyotsana_code"
    /\ llm_model = FALSE
    /\ exhaustive_fields \in Catalogues
    /\ gt_file = Unreadable
    /\ pr_files = <<>>
    /\ pc = "idle"
    /\ gt_data = EmptyMap
    /\ pr_data_list = <<>>
    /\ final_fields = <<>>
    /\ fi = 0
    /\ ci = 0
    /\ row = NoRow
    /\ report_data = <<>>
    /\ judge_calls = <<>>
    /\ written = FALSE
    /\ FirstRun
    /\ NoMain
    /\ NoFetch
    /\ \E first \in UNION {[1..n -> Statuses] : n \in 0..MaxRows},
          second \in UNION {[1..n -> Statuses] : n \in 0..1} :
          reports = <<first, second>>
    /\ metrics = NoMetrics
    /\ summary = [ok |-> FALSE, table |-> <<>>]

NextMetrics ==
    \/ CalculateMetrics
    \/ CalculateSummary

SpecMetrics == InitMetrics /\ [][NextMetrics]_vars

(***************************************************************************)
(* The loaders on raw records: null values, the deletion marker, names     *)
(* that collide case-insensitively, embedded entries with repeated, empty  *)
(* or missing keys, structural attributes of the wrong type.               *)
(***************************************************************************)
\* an attribute that may be left out of a record
LeftOut == [present |-> FALSE, value |-> VNone]
With(d, k, opt) == IF opt.present THEN DictPut(d, k, opt.value) ELSE d

\* entries instance['fileTransferFields'] may hold
EntryPool ==
    {Entry("Rules", VWord("ACME_B")), Entry("rules", VWord("ACME_C")),
     Entry("zeta", VNone), Entry("", VWord("e")),
     VDict(<<"value">>, <<VWord("nokey")>>), VWord("junk")}
MaxEntries == 2
EntryLists == UNION {[1..n -> EntryPool] : n \in 0..MaxEntries}

\* raw ground-truth records
GtRawDocs ==
    {With(With(With(With(VDict(<<"fileTypeId">>, <<VWord("ft1")>>),
                         "planName", pn), "Rules", r), del[1], del[2]), ftf[1], ftf[2]) :
        pn \in {LeftOut, Present(VWord("p1")), Present(VNone)},
        r \in {LeftOut, Present(VWord("ACME_A")), Present(VNone)},
        del \in {<<"deleted", LeftOut>>, <<"deleted", Present(VBool(FALSE))>>,
                 <<"Deleted", Present(VBool(TRUE))>>},
        ftf \in {<<"fileTransferFields", LeftOut>>}
                \cup ({"fileTransferFields", "FileTransferFields"}
                      \X ({Present(VWord("x"))} \cup {Present(VList(es)) : es \in EntryLists}))}

\* values data['suggestions'] may have
SuggestionsPool ==
    {VWord("x"), VNone, VDict(<<>>, <<>>),
     VDict(<<"rules">>, <<VWord("S1")>>),
     VDict(<<"Rules", "rules">>, <<VWord("S1"), VWord("S2")>>),
     VDict(<<"zeta">>, <<VNone>>),
     VDict(<<"planName">>, <<VWord("p2")>>)}

\* raw prediction records
PrRawDocs ==
    {With(With(With(VDict(<<>>, <<>>), "Rules", r), "zeta", z), sg[1], sg[2]) :
        r \in {LeftOut, Present(VWord("ACME_A")), Present(VNone)},
        z \in {LeftOut, Present(VWord("z1"))},
        sg \in {<<"suggestions", LeftOut>>}
               \cup ({"suggestions", "Suggestions"} \X {Present(v) : v \in SuggestionsPool})}

\* a comparator on a raw reference with a plain candidate, or on a plain
\* reference with a raw candidate
InitLoad ==
    /\ variant \in Variants
    /\ llm_model \in BOOLEAN
    /\ exhaustive_fields \in Catalogues
    /\ \/ /\ gt_file \in {File(d) : d \in GtRawDocs}
          /\ pr_files = <<File(VDict(<<"Rules">>, <<VWord("ACME_A")>>))>>
       \/ /\ gt_file = File(VDict(<<"Rules">>, <<VWord("ACME_A")>>))
          /\ pr_files \in {<<File(d)>> : d \in PrRawDocs}
    /\ pc = "start"
    /\ gt_data = EmptyMap
    /\ pr_data_list = <<>>
    /\ final_fields = <<>>
    /\ fi = 0
    /\ ci = 0
    /\ row = NoRow
    /\ report_data = <<>>
    /\ judge_calls = <<>>
    /\ written = FALSE
    /\ OutsideIdle

\* the head of the comparison: the two loads and the field universe
NextLoad ==
    \/ LoadAborts
    \/ Load

SpecLoad == InitLoad /\ [][NextLoad]_vars

(***************************************************************************)
(* Properties.                                                             *)
(***************************************************************************)
\* the rows assembled so far, the row under construction included
Rows == IF row = NoRow THEN report_data ELSE Append(report_data, row)
\* the (row, candidate version) pairs that have a stored outcome
Cells == {ic \in (1..Len(Rows)) \X (1..Len(pr_data_list)) : ic[2] <= Len(Rows[ic[1]].cells)}
CellOf(ic) == Rows[ic[1]].cells[ic[2]]
FieldOf(ic) == Rows[ic[1]].FieldName
GtHas(ic) == FieldOf(ic) \in DOMAIN gt_data
PrHas(ic) == FieldOf(ic) \in DOMAIN pr_data_list[ic[2]]
GtValueOf(ic) == MapGet(gt_data, FieldOf(ic))
PrValueOf(ic) == MapGet(pr_data_list[ic[2]], FieldOf(ic))
\* the trimmed string renderings _determine_match_status compares
GtStrOf(ic) == Strip(Str(GtValueOf(ic)))
PrStrOf(ic) == Strip(Str(PrValueOf(ic)))
\* the judge was called for the pair
JudgeCalled(ic) ==
    \E k \in 1..Len(judge_calls) :
        judge_calls[k].field = FieldOf(ic) /\ judge_calls[k].version = ic[2]

C2_StatusFixedByPresence ==
    \A ic \in Cells :
        CellOf(ic).Status \in
            (CASE ~GtHas(ic) /\ ~PrHas(ic) -> {"GT Absent PR Absent"}
               [] ~GtHas(ic) /\ PrHas(ic) -> {"GT Absent PR Present"}
               [] GtHas(ic) /\ ~PrHas(ic) -> {"GT Present PR Absent"}
               [] GtHas(ic) /\ PrHas(ic) -> {"GT Present PR Present and match",
                                            "GT Present PR Present but mismatch"})

\* C2 witness: a finished run with a both-absent field outside the catalogue,
\* a both-absent catalogue field, a candidate-only field and a hidden toggle
\* the candidate omits
C2_Witness ==
    /\ pc = "done"
    /\ \E ic \in Cells : /\ ~GtHas(ic) /\ ~PrHas(ic)
                         /\ FieldOf(ic) \notin exhaustive_fields
    /\ \E ic \in Cells : /\ ~GtHas(ic) /\ ~PrHas(ic)
                         /\ FieldOf(ic) \in exhaustive_fields
    /\ \E ic \in Cells : ~GtHas(ic) /\ PrHas(ic)
    /\ \E ic \in Cells : /\ GtHas(ic) /\ ~PrHas(ic)
                         /\ CellOf(ic).Match_Type = "correctly_absent_as_hidden"

\* C3: a pair present in both records whose trimmed renderings are equal is
\* (match, exact_match), toggle fields and JSON values included, and the
\* judge is not called for it.
C3_ExactMatchFirst ==
    \A ic \in Cells :
        (GtHas(ic) /\ PrHas(ic) /\ GtStrOf(ic) = PrStrOf(ic)) =>
            /\ CellOf(ic).Status = "GT Present PR Present and match"
            /\ CellOf(ic).Match_Type = "exact_match"
            /\ ~JudgeCalled(ic)

\* C3 witness: with a judge configured, a toggle field whose two JSON
\* renderings are equal after trimming only
C3_Witness ==
    /\ pc = "done" /\ llm_model
    /\ \E ic \in Cells :
          /\ FieldOf(ic) = "toggle-x" /\ GtHas(ic) /\ PrHas(ic)
          /\ GtStrOf(ic) = PrStrOf(ic)
          /\ Str(GtValueOf(ic)) # Str(PrValueOf(ic))
          /\ Loads(GtStrOf(ic)).ok
          /\ CellOf(ic).Match_Type = "exact_match"

\* the judge calls that failed / that answered
FailedCalls == {k \in 1..Len(judge_calls) : judge_calls[k].answer = "<raise>"}
AnsweredCalls == {k \in 1..Len(judge_calls) : judge_calls[k].answer # "<raise>"}
\* the stored outcomes of the pair judge call k was made for
CellsOfCall(k) ==
    {ic \in Cells : FieldOf(ic) = judge_calls[k].field /\ ic[2] = judge_calls[k].version}

ExactRuleHolds(ic) == GtStrOf(ic) = PrStrOf(ic)
ToggleRuleApplies(ic) ==
    /\ FieldOf(ic) \in {"toggle-x"}
    /\ IsJsonString(GtStrOf(ic)) /\ IsJsonString(PrStrOf(ic))
    /\ PyIn(VWord("hidden"), Loads(GtStrOf(ic)).val)
    /\ PyIn(VWord("hidden"), Loads(PrStrOf(ic)).val)
JsonRuleHolds(ic) ==
    /\ IsJsonString(GtStrOf(ic)) /\ IsJsonString(PrStrOf(ic))
    /\ CompareJsonValues(variant, GtStrOf(ic), PrStrOf(ic))
Unresolved(ic) ==
    /\ GtHas(ic) /\ PrHas(ic)
    /\ ~ExactRuleHolds(ic) /\ ~ToggleRuleApplies(ic) /\ ~JsonRuleHolds(ic)

LabelOfCall(k) == StripLower(judge_calls[k].answer)

\* C6 as claimed: the subtype is the judge's label and the status is match
\* exactly for the labels default_match and json_partial_correct.
C6_MatchLabelsEverywhere ==
    \A k \in AnsweredCalls : \A ic \in CellsOfCall(k) :
        /\ CellOf(ic).Match_Type = LabelOfCall(k)
        /\ CellOf(ic).Status =
              IF LabelOfCall(k) \in {"default_match", "json_partial_correct"}
              THEN "GT Present PR Present and match"
              ELSE "GT Present PR Present but mismatch"

\* C6 amended: the subtype is the judge's label; the status is match exactly
\* for default_match and json_partial_correct in pipeline_4 and
\* pipelining_script, and exactly for json_partial_correct in jyotsana_code.
C6_MatchLabelsPerVariant ==
    \A k \in AnsweredCalls :
        /\ CellsOfCall(k) # {}
        /\ \A ic \in CellsOfCall(k) :
              /\ CellOf(ic).Match_Type = LabelOfCall(k)
              /\ CellOf(ic).Status =
                    IF \/ LabelOfCall(k) = "json_partial_correct"
                       \/ LabelOfCall(k) = "default_match" /\ variant # "jyotsana_code"
                    THEN "GT Present PR Present and match"
                    ELSE "GT Present PR Present but mismatch"

\* C6 witness: jyotsana_code stored a mismatch for the answer default_match
C6_Witness ==
    /\ pc = "done" /\ variant = "jyotsana_code"
    /\ \E k \in AnsweredCalls : \E ic \in CellsOfCall(k) :
          /\ LabelOfCall(k) = "default_match"
          /\ CellOf(ic).Status = "GT Present PR Present but mismatch"

\* both renderings parse as JSON objects that have a 'hidden' key
BothHaveHiddenKey(ic) ==
    /\ Loads(GtStrOf(ic)).ok /\ Loads(PrStrOf(ic)).ok
    /\ Loads(GtStrOf(ic)).val.t = "dict" /\ Loads(PrStrOf(ic)).val.t = "dict"
    /\ HasKey(Loads(GtStrOf(ic)).val, "hidden")
    /\ HasKey(Loads(PrStrOf(ic)).val, "hidden")
HiddenEqual(ic) ==
    PyEq(DictGet(Loads(GtStrOf(ic)).val, "hidden"), DictGet(Loads(PrStrOf(ic)).val, "hidden"))

\* C7: for a toggle field present in both records whose renderings parse as
\* JSON objects with a 'hidden' key, the status is match exactly when the
\* two 'hidden' values are equal, whatever the other keys; the subtype is
\* exact_match for identical renderings, else toggle_match_hidden_only or
\* incorrect_toggle_hidden_mismatch, and the judge is not called.
C7_ToggleLaw ==
    \A ic \in Cells :
        (FieldOf(ic) \in {"toggle-x"} /\ GtHas(ic) /\ PrHas(ic) /\ BothHaveHiddenKey(ic)) =>
            /\ CellOf(ic).Status = IF HiddenEqual(ic)
                                   THEN "GT Present PR Present and match"
                                   ELSE "GT Present PR Present but mismatch"
            /\ CellOf(ic).Match_Type =
                  IF GtStrOf(ic) = PrStrOf(ic) THEN "exact_match"
                  ELSE IF HiddenEqual(ic) THEN "toggle_match_hidden_only"
                  ELSE "incorrect_toggle_hidden_mismatch"
            /\ ~JudgeCalled(ic)

\* C7 witness: two toggle documents that agree on 'hidden' and differ in
\* another key were stored as a match
C7_Witness ==
    /\ pc = "done"
    /\ \E ic \in Cells :
          /\ FieldOf(ic) = "toggle-x" /\ GtHas(ic) /\ PrHas(ic) /\ BothHaveHiddenKey(ic)
          /\ HiddenEqual(ic)
          /\ ~PyEq(Loads(GtStrOf(ic)).val, Loads(PrStrOf(ic)).val)
          /\ CellOf(ic).Match_Type = "toggle_match_hidden_only"

\* the reference value, rendered by _format_value, is the text of a JSON
\* object whose 'hidden' is true
ReferenceHidden(ic) ==
    /\ FormatValue(GtValueOf(ic)) # <<>>
    /\ Head(FormatValue(GtValueOf(ic))) = P("{")
    /\ Loads(FormatValue(GtValueOf(ic))).ok
    /\ DictGet(Loads(FormatValue(GtValueOf(ic))).val, "hidden") = VBool(TRUE)

\* C8: a toggle field the reference holds with 'hidden' true and the
\* candidate omits is (GT Present PR Absent, correctly_absent_as_hidden) in
\* every variant of the driver.
C8_HiddenToggleAbsent ==
    \A ic \in Cells :
        (FieldOf(ic) \in {"toggle-x"} /\ GtHas(ic) /\ ~PrHas(ic) /\ ReferenceHidden(ic)) =>
            /\ CellOf(ic).Status = "GT Present PR Absent"
            /\ CellOf(ic).Match_Type = "correctly_absent_as_hidden"

\* C9: in the presence-only outcomes (both absent, candidate only, reference
\* only without the hidden-toggle exception) the match type is 'N/A' in
\* every variant of the driver and for every candidate version.
C9_PresenceOnlySubtype ==
    \A ic \in Cells :
        (~(GtHas(ic) /\ PrHas(ic))
            /\ ~(FieldOf(ic) \in {"toggle-x"} /\ GtHas(ic) /\ ReferenceHidden(ic))) =>
            CellOf(ic).Match_Type = "N/A"

\* a JSON array of scalars, or of mappings whose values are scalars
ScalarsOrFlatMappings(xs) ==
    /\ xs.t = "list"
    /\ \A i \in 1..Len(xs.items) :
          \/ xs.items[i].t \in {"none", "bool", "int", "str"}
          \/ /\ xs.items[i].t = "dict"
             /\ \A j \in 1..Len(xs.items[i].items) :
                   xs.items[i].items[j].t \in {"none", "bool", "int", "str"}

\* both renderings are such JSON arrays, not the same text, with the same
\* elements up to order and repetition
SameElements(ic) ==
    /\ Loads(GtStrOf(ic)).ok /\ Loads(PrStrOf(ic)).ok
    /\ ScalarsOrFlatMappings(Loads(GtStrOf(ic)).val)
    /\ ScalarsOrFlatMappings(Loads(PrStrOf(ic)).val)
    /\ GtStrOf(ic) # PrStrOf(ic)
    /\ SetEq(Loads(GtStrOf(ic)).val, Loads(PrStrOf(ic)).val)

\* C10: two JSON sequences with the same elements that differ only in order
\* or in repetition are (match, json_partial_match), for sequences of
\* mappings and of scalars, in every variant.
C10_SequenceSetEquivalence ==
    \A ic \in Cells :
        (GtHas(ic) /\ PrHas(ic) /\ SameElements(ic)) =>
            /\ CellOf(ic).Status = "GT Present PR Present and match"
            /\ CellOf(ic).Match_Type = "json_partial_match"

\* the two stored values are native sequences of mappings (decoded lists,
\* not texts) with the same elements in a different order
NativeReordered(ic) ==
    /\ GtHas(ic) /\ PrHas(ic)
    /\ GtValueOf(ic).t = "list" /\ PrValueOf(ic).t = "list"
    /\ \A i \in 1..Len(GtValueOf(ic).items) : GtValueOf(ic).items[i].t = "dict"
    /\ Len(GtValueOf(ic).items) = Len(PrValueOf(ic).items)
    /\ GtValueOf(ic) # PrValueOf(ic)
    /\ \E perm \in Permutations(1..Len(GtValueOf(ic).items)) :
          \A i \in 1..Len(GtValueOf(ic).items) :
              PrValueOf(ic).items[i] = GtValueOf(ic).items[perm[i]]

\* C11: a reference value and a candidate value that are native sequences
\* of mappings differing only in element order are compared through their
\* canonical JSON renderings and stored as (match, json_partial_match).
C11_NativeSequencesMatch ==
    \A ic \in Cells : NativeReordered(ic) =>
        /\ CellOf(ic).Status = "GT Present PR Present and match"
        /\ CellOf(ic).Match_Type = "json_partial_match"

\* the outcome of the same pair in the run on the same records and
\* catalogue that has no judge configured
WithoutJudge(ic) ==
    PairOutcome(variant, FALSE, FieldOf(ic), GtHas(ic), GtValueOf(ic), PrHas(ic), PrValueOf(ic))

\* the outcome the last step has stored (stored outcomes are not rewritten,
\* so every outcome of a run is the last stored one in some state)
LastStored ==
    IF row # NoRow /\ row.cells # <<>> THEN {<<Len(Rows), Len(row.cells)>>}
    ELSE IF pc \in {"loop", "write"} /\ report_data # <<>>
         THEN {<<Len(report_data), Len(pr_data_list)>>}
    ELSE {}

\* C12: against the run without a judge on the same inputs, a pair has the
\* same status and match type unless the judge was called for it; the judge
\* is called only for pairs that presence, exact equality, the toggle rule
\* and JSON equivalence leave open, and those are (mismatch, incorrect)
\* without the judge; no pair is a match without the judge and a mismatch
\* with it.  Checked for each outcome in the state that stores it.
C12_JudgeChangesOnlyFallback ==
    \A ic \in LastStored :
        LET without == WithoutJudge(ic) IN
        /\ without.kind = "return"
        /\ IF JudgeCalled(ic)
           THEN /\ llm_model /\ Unresolved(ic)
                /\ without.status = "GT Present PR Present but mismatch"
                /\ without.mt = "incorrect"
           ELSE /\ CellOf(ic).Status = without.status
                /\ CellOf(ic).Match_Type = without.mt
        /\ ~(/\ without.status = "GT Present PR Present and match"
              /\ CellOf(ic).Status = "GT Present PR Present but mismatch")

\* C12 witness: a finished run with a judge in which one pair was resolved
\* by JSON equivalence without a call and another pair, (mismatch,
\* incorrect) without the judge, was turned into a match by the judge
C12_Witness ==
    /\ pc = "done" /\ llm_model
    /\ \E ic \in Cells :
          /\ JsonRuleHolds(ic) /\ ~ExactRuleHolds(ic) /\ ~JudgeCalled(ic)
          /\ CellOf(ic).Match_Type = "json_partial_match"
    /\ \E ic \in Cells :
          /\ Unresolved(ic) /\ JudgeCalled(ic)
          /\ WithoutJudge(ic).mt = "incorrect"
          /\ CellOf(ic).Status = "GT Present PR Present and match"

\* the place of a field in the order the loop visits the fields
PlaceOf(f) == CHOOSE i \in 1..Len(final_fields) : final_fields[i] = f

\* C13: the judge calls of a run are for pairs of the run, each call has
\* returned and its outcome is stored before the next one is made, and
\* the calls are in strictly increasing (field, candidate version) order,
\* so no pair is judged twice.
C13_JudgeOncePerPairInOrder ==
    /\ \A k \in 1..Len(judge_calls) :
          /\ \E i \in 1..Len(final_fields) : final_fields[i] = judge_calls[k].field
          /\ judge_calls[k].version \in 1..Len(pr_data_list)
          /\ CellsOfCall(k) # {}
    /\ \A j, k \in 1..Len(judge_calls) : j < k =>
          \/ PlaceOf(judge_calls[j].field) < PlaceOf(judge_calls[k].field)
          \/ /\ judge_calls[j].field = judge_calls[k].field
             /\ judge_calls[j].version < judge_calls[k].version

\* C13 witness: a finished run with three judge calls, two of them for the
\* two candidates of one field and the third for a later field
C13_Witness ==
    /\ pc = "done"
    /\ Len(judge_calls) = 3
    /\ judge_calls[1].field = judge_calls[2].field
    /\ judge_calls[1].version = 1 /\ judge_calls[2].version = 2
    /\ judge_calls[3].field # judge_calls[2].field

\* the field names that have a row
RowNames == {Rows[i].FieldName : i \in 1..Len(Rows)}

\* C14: no row, and no field the loop is going to visit, has a name whose
\* lower-case form is in IGNORED_FIELDS, wherever the name came from.
C14_IgnoredFieldsHaveNoRow ==
    /\ \A f \in RowNames : Lower(f) \notin IGNORED_FIELDS
    /\ \A i \in 1..Len(final_fields) : Lower(final_fields[i]) \notin IGNORED_FIELDS

\* C14 witness: a finished run with rows in which the ignored field
\* filetypeid is in the catalogue, in the reference record and in a
\* candidate record
C14_Witness ==
    /\ pc = "done" /\ written /\ report_data # <<>>
    /\ "filetypeid" \in IGNORED_FIELDS
    /\ "filetypeid" \in exhaustive_fields
    /\ "filetypeid" \in DOMAIN gt_data
    /\ \E c \in 1..Len(pr_data_list) : "filetypeid" \in DOMAIN pr_data_list[c]

\* the lower-cased catalogue, the keys of the normalised reference and the
\* keys of every normalised candidate, without the ignored names
ExpectedNames ==
    {f \in exhaustive_fields \cup (DOMAIN gt_data)
            \cup UNION {DOMAIN pr_data_list[c] : c \in 1..Len(pr_data_list)} :
        Lower(f) \notin IGNORED_FIELDS}

RankOf(f) == CHOOSE i \in 1..Len(NameOrder) : NameOrder[i] = f

\* C16: the rows are in strictly ascending order of FieldName, no two rows
\* have names that are equal case-insensitively, and every appended row
\* holds one (value, status, match type) triple per candidate, the triple
\* at place v being the one of candidate version v.
C16_RowsSortedOnePerField ==
    /\ \A i, j \in 1..Len(Rows) : i < j =>
          /\ Rows[i].FieldName \in {NameOrder[n] : n \in 1..Len(NameOrder)}
          /\ Rows[j].FieldName \in {NameOrder[n] : n \in 1..Len(NameOrder)}
          /\ RankOf(Rows[i].FieldName) < RankOf(Rows[j].FieldName)
          /\ Lower(Rows[i].FieldName) # Lower(Rows[j].FieldName)
    /\ \A i \in 1..Len(report_data) :
          /\ Len(report_data[i].cells) = Len(pr_data_list)
          /\ \A v \in 1..Len(pr_data_list) :
                /\ report_data[i].cells[v].Predicted_Value =
                      FormatValue(MapGet(pr_data_list[v], report_data[i].FieldName))
                /\ report_data[i].cells[v].Status \in {"GT Present PR Absent", "GT Absent PR Absent"}
                      <=> report_data[i].FieldName \notin DOMAIN pr_data_list[v]

\* C16 witness: a finished run with four rows and two candidates, one row
\* holding different values and different statuses for the two candidates
C16_Witness ==
    /\ pc = "done" /\ written
    /\ Len(report_data) = 4 /\ Len(pr_data_list) = 2
    /\ \E i \in 1..Len(report_data) :
          /\ report_data[i].cells[1].Predicted_Value # report_data[i].cells[2].Predicted_Value
          /\ report_data[i].cells[1].Status # report_data[i].cells[2].Status

\* the raw reference record and its embedded entries (the elements of the
\* list under the attribute 'fileTransferFields')
GtRaw == gt_file.doc
GtEntries ==
    IF HasKey(GtRaw, "fileTransferFields") /\ DictGet(GtRaw, "fileTransferFields").t = "list"
    THEN DictGet(GtRaw, "fileTransferFields").items
    ELSE <<>>
\* the record is a mapping whose embedded entries are mappings with text keys
GtWellFormed ==
    /\ gt_file.readable /\ GtRaw.t = "dict"
    /\ \A i \in 1..Len(GtEntries) :
          /\ GtEntries[i].t = "dict"
          /\ DictGet(GtEntries[i], "key").t \in {"str", "none"}
\* the embedded entries that write the lower-case name k, and the
\* top-level attributes that do
GtEntriesFor(k) ==
    {i \in 1..Len(GtEntries) :
        /\ DictGet(GtEntries[i], "key").t = "str"
        /\ DictGet(GtEntries[i], "key").txt # <<>>
        /\ Lower(AtomOf(DictGet(GtEntries[i], "key"))) = k}
GtAttributesFor(k) ==
    {i \in 1..Len(GtRaw.keys) :
        /\ Lower(GtRaw.keys[i]) = k
        /\ Lower(GtRaw.keys[i]) \notin {"filetransferfields", "deleted"}
        /\ GtRaw.items[i] # VNone}
Last(S) == CHOOSE i \in S : \A j \in S : j <= i
LowerNames == {Lower(k) : k \in {"planName", "Rules", "rules", "fileTypeId", "zeta", "deleted",
                                   "Deleted", "fileTransferFields", "FileTransferFields",
                                   "suggestions", "Suggestions", "toggle-x", ""}}

PrRaw == pr_files[1].doc
PrSuggested ==
    IF HasKey(PrRaw, "suggestions") /\ DictGet(PrRaw, "suggestions").t = "dict"
    THEN DictGet(PrRaw, "suggestions")
    ELSE VDict(<<>>, <<>>)
PrWellFormed == pr_files[1].readable /\ PrRaw.t = "dict"
PrSuggestedFor(k) == {i \in 1..Len(PrSuggested.keys) : Lower(PrSuggested.keys[i]) = k}
PrAttributesFor(k) ==
    {i \in 1..Len(PrRaw.keys) :
        Lower(PrRaw.keys[i]) = k /\ Lower(PrRaw.keys[i]) # "suggestions"}

\* C18: the normalised candidate has lower-case keys; a name the
\* suggestions mapping holds (in any case) has the suggested value, whatever
\* the top level holds; any other name is a key iff a top-level attribute
\* other than suggestions has it as lower-case form, with that value, null
\* values included.
C18_CandidateNormalisation ==
    (pc # "start" /\ PrWellFormed) =>
        /\ DOMAIN pr_data_list[1] \subseteq LowerNames
        /\ \A k \in LowerNames :
              IF PrSuggestedFor(k) # {}
              THEN /\ k \in DOMAIN pr_data_list[1]
                   /\ pr_data_list[1][k] = PrSuggested.items[Last(PrSuggestedFor(k))]
              ELSE /\ k \in DOMAIN pr_data_list[1] <=> PrAttributesFor(k) # {}
                   /\ k \in DOMAIN pr_data_list[1] =>
                         pr_data_list[1][k] = PrRaw.items[Last(PrAttributesFor(k))]

\* C18 witness: a loaded candidate whose suggestions replaced the top-level
\* value of the same name up to case and that kept another top-level
\* attribute
C18_Witness ==
    /\ pc = "loop" /\ PrWellFormed
    /\ HasKey(PrRaw, "Rules") /\ DictGet(PrRaw, "Rules") = VWord("ACME_A")
    /\ PrSuggestedFor("rules") # {}
    /\ pr_data_list[1]["rules"] = VWord("S2")
    /\ "zeta" \in DOMAIN pr_data_list[1] /\ pr_data_list[1]["zeta"] = VWord("z1")
    /\ "suggestions" \notin DOMAIN pr_data_list[1]

\* the candidate holds the field with a value that renders to the text none
CandidateSaysNone(ic) ==
    PrHas(ic) /\ FormatValue(PrValueOf(ic)) = <<W("none")>>

\* C19: a candidate value that is the text 'none' is treated as absent from
\* the candidate: the status is GT Present PR Absent when the reference has
\* the field and GT Absent PR Absent when it has not, and the both-present
\* cascade (the judge included) is not applied.
C19_NoneIsCandidateAbsent ==
    \A ic \in Cells : CandidateSaysNone(ic) =>
        /\ CellOf(ic).Status = IF GtHas(ic) THEN "GT Present PR Absent"
                                ELSE "GT Absent PR Absent"
        /\ ~JudgeCalled(ic)

\* classifying the stored pair raises an exception
ClassifyingFails(ic) ==
    PairOutcome(variant, llm_model, FieldOf(ic), GtHas(ic), GtValueOf(ic),
                PrHas(ic), PrValueOf(ic)).kind = "raise"

\* C20: a failure raised while one field is classified does not end the
\* run: the loop is never left by an exception, and a pair whose
\* classification fails is stored as (mismatch, incorrect), so that this
\* field and the later ones get their rows.
C20_FailureDoesNotAbort ==
    /\ pc # "failed"
    /\ \A ic \in Cells : ClassifyingFails(ic) =>
          /\ CellOf(ic).Status = "GT Present PR Present but mismatch"
          /\ CellOf(ic).Match_Type = "incorrect"

\* C21: when the reference file cannot be read, the comparison stops at
\* the load: no field universe is built, no pair is classified, no row is
\* made, the judge is not called and no report is written; the run ends in
\* the abort of the whole comparison, with no per-field outcome.
C21_UnreadableReferenceAborts ==
    ~gt_file.readable =>
        /\ pc \in {"start", "aborted"}
        /\ gt_data = EmptyMap /\ final_fields = <<>>
        /\ fi = 0 /\ ci = 0 /\ row = NoRow
        /\ report_data = <<>>
        /\ judge_calls = <<>>
        /\ ~written

\* C21 witness: a comparison with a judge and a readable candidate that
\* holds a field was aborted on an unreadable reference
C21_Witness ==
    /\ pc = "aborted" /\ ~gt_file.readable /\ llm_model
    /\ pr_files[1].readable
    /\ DOMAIN pr_data_list[1] # {}
    /\ report_data = <<>> /\ ~written

\* the structural part of the raw reference is missing or malformed:
\* 'fileTransferFields' is absent, is not a list, or holds an entry that is
\* not a mapping
GtStructureMalformed ==
    \/ ~HasKey(GtRaw, "fileTransferFields")
    \/ DictGet(GtRaw, "fileTransferFields").t # "list"
    \/ \E i \in 1..Len(GtEntries) : GtEntries[i].t # "dict"
\* 'suggestions' is absent from the raw candidate or is not a mapping
PrStructureMalformed ==
    \/ ~HasKey(PrRaw, "suggestions")
    \/ DictGet(PrRaw, "suggestions").t # "dict"

\* C22: a reference whose 'fileTransferFields' is absent, not a list or
\* holds an entry that is not a mapping still normalises to a map that
\* holds every well-formed top-level attribute no embedded entry writes,
\* and a candidate whose 'suggestions' is absent or not a mapping
\* normalises to the map of its top-level attributes.
C22_MalformedStructureTolerated ==
    /\ (pc # "start" /\ gt_file.readable /\ GtRaw.t = "dict" /\ GtStructureMalformed) =>
          \A k \in LowerNames : (GtAttributesFor(k) # {} /\ GtEntriesFor(k) = {}) =>
              /\ k \in DOMAIN gt_data
              /\ gt_data[k] = GtRaw.items[Last(GtAttributesFor(k))]
    /\ (pc # "start" /\ PrWellFormed /\ PrStructureMalformed) =>
          \A k \in LowerNames :
              /\ k \in DOMAIN pr_data_list[1] <=> PrAttributesFor(k) # {}
              /\ k \in DOMAIN pr_data_list[1] =>
                    pr_data_list[1][k] = PrRaw.items[Last(PrAttributesFor(k))]


\* a field that only comparisons before the current one had in their records
EarlierOnly ==
    {f \in earlier_fields :
        /\ f \notin exhaustive_fields
        /\ f \notin DOMAIN LoadedGt
        /\ \A i \in 1..Len(pr_files) : f \notin DOMAIN LoadedPrs[i]}

\* C23: through any number of comparisons the catalogue stays the set the
\* constructor built (IGNORED_FIELDS is a constant of the program); the
\* records of a comparison are the ones loaded from its own files, its field
\* list is built from them and the catalogue, and no field that only earlier
\* comparisons had in their records is in its field list or its rows.
C23_RunsShareNothing ==
    /\ exhaustive_fields \in Catalogues
    /\ pc \in {"loop", "write", "done", "empty", "failed"} =>
          /\ gt_data = LoadedGt
          /\ pr_data_list = LoadedPrs
          /\ final_fields = FinalFields(exhaustive_fields, gt_data, pr_data_list)
    /\ \A f \in EarlierOnly :
          /\ f \notin RowNames
          /\ \A i \in 1..Len(final_fields) : final_fields[i] # f

\* C23 witness: a second comparison has been written with rows, and the
\* field zeta, which the comparison before had in its reference, is in none
\* of its records
C23_Witness ==
    /\ run = 2 /\ pc = "done" /\ written /\ report_data # <<>>
    /\ "zeta" \in EarlierOnly
    /\ "zeta" \in DOMAIN previous.gt_data

\* C24: a comparison that has the same records as the one before it, with
\* the same catalogue and the same judge answers (or no judge), has the same
\* rows: fields, order, values, statuses and match types.
C24_SameInputsSameRows ==
    (/\ run >= 2
     /\ pc \in {"write", "done"}
     /\ previous.gt_data = gt_data
     /\ previous.pr_data_list = pr_data_list
     /\ previous.judge_calls = judge_calls) => previous.report_data = report_data

\* C24 witness: the second of two finished comparisons on the same records,
\* in both of which the judge was called and gave the same answer
C24_Witness ==
    /\ run = 2 /\ pc = "done"
    /\ previous.gt_data = gt_data
    /\ previous.pr_data_list = pr_data_list
    /\ previous.judge_calls = judge_calls
    /\ judge_calls # <<>>
    /\ Len(report_data) >= 2
    /\ previous.report_data = report_data


\* both values present, not equal as trimmed strings, and the toggle rule
\* decides the pair
ToggleDecided(ic) ==
    GtHas(ic) /\ PrHas(ic) /\ ~ExactRuleHolds(ic) /\ ToggleRuleApplies(ic)
\* both values present, not equal, not decided by the toggle rule, both JSON
\* texts, and not equivalent as JSON
JsonRuleFails(ic) ==
    /\ GtHas(ic) /\ PrHas(ic) /\ ~ExactRuleHolds(ic) /\ ~ToggleRuleApplies(ic)
    /\ IsJsonString(GtStrOf(ic)) /\ IsJsonString(PrStrOf(ic))
    /\ ~CompareJsonValues(variant, GtStrOf(ic), PrStrOf(ic))

\* C25: the judge is called for a pair only if both values are present,
\* their renderings differ, the toggle rule did not decide and JSON
\* equivalence did not hold; a pair the toggle rule decides has one of the
\* two toggle match types and no judge call; a pair of JSON texts that are
\* not equivalent goes to the judge when one is configured and is (mismatch,
\* incorrect) otherwise.  Checked for each outcome in the state that stores it.
C25_JudgeAfterDeterministicRules ==
    \A ic \in LastStored :
        /\ JudgeCalled(ic) => Unresolved(ic)
        /\ ToggleDecided(ic) =>
              /\ ~JudgeCalled(ic)
              /\ CellOf(ic).Match_Type \in {"toggle_match_hidden_only",
                                            "incorrect_toggle_hidden_mismatch"}
        /\ JsonRuleFails(ic) =>
              IF llm_model THEN JudgeCalled(ic)
              ELSE /\ CellOf(ic).Status = "GT Present PR Present but mismatch"
                   /\ CellOf(ic).Match_Type = "incorrect"

\* C25 witness: a finished run with a judge in which the toggle rule decided
\* one pair whose JSON texts are not equivalent, without a judge call, and
\* the judge was called for another pair of JSON texts that are not equivalent
C25_Witness ==
    /\ pc = "done" /\ llm_model
    /\ \E ic \in Cells :
          /\ ToggleDecided(ic) /\ ~JsonRuleHolds(ic) /\ ~JudgeCalled(ic)
          /\ CellOf(ic).Match_Type = "toggle_match_hidden_only"
    /\ \E ic \in Cells : JsonRuleFails(ic) /\ JudgeCalled(ic)


\* one value of the stored pair is null and the other is the text v
NullAgainst(ic, v) ==
    /\ GtHas(ic) /\ PrHas(ic)
    /\ \/ GtValueOf(ic) = VNone /\ PrValueOf(ic) = v
       \/ GtValueOf(ic) = v /\ PrValueOf(ic) = VNone

\* C26 as claimed: in the both-present cascade null is rendered as the empty
\* string: null against the empty string is an exact match, and null against
\* the text 'None' is not.
C26_NullRendersEmpty ==
    \A ic \in LastStored :
        /\ NullAgainst(ic, VWord("")) =>
              /\ CellOf(ic).Status = "GT Present PR Present and match"
              /\ CellOf(ic).Match_Type = "exact_match"
        /\ NullAgainst(ic, VWord("None")) => CellOf(ic).Match_Type # "exact_match"


\* the fixed order of an account's steps
StepOrder ==
    IF variant = "pipeline_4"
    THEN <<"tenant_id", "ground_truth", "upload", "tenant_info", "fetch", "compare">>
    ELSE <<"tenant_id", "ground_truth", "upload", "fetch", "compare">>
\* the executed steps of account a, in execution order
StepsOf(a) == SelectSeq(executed, LAMBDA e : e.account = a)
\* the steps of an account run in the fixed order and stop at the first
\* failure; a prediction request is sent only after the earlier steps succeeded
StepsInOrder ==
    /\ \A a \in Accounts :
          LET done == StepsOf(a) IN
          /\ Len(done) <= Len(StepOrder)
          /\ \A i \in 1..Len(done) :
                /\ done[i].step = StepOrder[i]
                /\ i < Len(done) => done[i].ok
    /\ \A k \in 1..Len(calls) :
          \A i \in 1..Len(StepsOf(calls[k].account)) :
             StepsOf(calls[k].account)[i].step \in {"tenant_id", "ground_truth", "upload",
                                                    "tenant_info"}
                => StepsOf(calls[k].account)[i].ok
\* the program has ended: main returned, or an exception left it
Ended == step = "finished" \/ pc = "failed"
\* when the program ends every account has had its turn
LoopGoesOn == Ended => \A a \in Accounts : StepsOf(a) # <<>>
\* the frames collected are of accounts all of whose steps succeeded
CollectedOnlyIfSucceeded ==
    \A k \in 1..Len(all_tenants_report_data) :
        LET a == all_tenants_report_data[k].account IN
        /\ a \in report_files
        /\ Len(StepsOf(a)) = Len(StepOrder)
        /\ \A i \in 1..Len(StepsOf(a)) : StepsOf(a)[i].ok

\* C27 as claimed: the steps of an account run in the fixed order, the first
\* failing step ends the account, the loop always goes on to the next
\* account, and an account's rows are collected for the consolidated report
\* only if all of its steps succeeded and its report file exists.
C27_AccountLoop == StepsInOrder /\ LoopGoesOn /\ CollectedOnlyIfSucceeded

\* the calls whose HTTP request returned a response
ReturnedCalls == {k \in 1..Len(calls) : calls[k].outcome # "request_raised"}
\* the timing rows the calls of this execution wrote
NewRows == SelectSeq(time_log.rows, LAMBDA r : r.kind = "timing" /\ r.call > 0)

\* C29: the time log, when it exists, has the header as its first row and
\* no other header; the rows of earlier executions come first; then one
\* timing row per call whose request returned, in call order, also for calls
\* that ended with an error status or a body that is no JSON, and none for
\* calls whose request raised.  A log that does not exist has no such call.
C29_TimeLogRows ==
    /\ ~time_log.exists => ReturnedCalls = {} /\ time_log.rows = <<>>
    /\ time_log.exists =>
          /\ time_log.rows[1] = HeaderRow
          /\ \A i \in 2..Len(time_log.rows) : time_log.rows[i].kind = "timing"
          /\ \A i, j \in 2..Len(time_log.rows) :
                (i < j /\ time_log.rows[j].call = 0) => time_log.rows[i].call = 0
          /\ Len(NewRows) = Cardinality(ReturnedCalls)
          /\ \A i \in 1..Len(NewRows) : NewRows[i].call \in ReturnedCalls
          /\ \A i, j \in 1..Len(NewRows) : i < j => NewRows[i].call < NewRows[j].call

\* C29 witness: on a log that did not exist, a call whose request raised, a
\* call that saved its file and a call for the local endpoint that got an
\* error status have been made, and the log holds the header and one row for
\* each of the two calls that returned
C29_Witness ==
    /\ \E k \in 1..Len(calls) : calls[k].outcome = "request_raised"
    /\ \E k \in 1..Len(calls) : calls[k].outcome = "saved"
    /\ \E k \in 1..Len(calls) : calls[k].endpoint = "local" /\ calls[k].outcome = "error_status"
    /\ time_log.exists
    /\ Len(time_log.rows) = 1 + Cardinality(ReturnedCalls)
    /\ Len(calls) > Cardinality(ReturnedCalls)


\* the paths iter1 .. iterN in iteration order
AllPaths == [i \in 1..num_iterations |-> i]
\* fetch_and_save_predictions has returned
FetchReturned == fetch_pc \in {"returned", "aborted", "comparing"}

\* C28: a request is sent only while every request before it was saved;
\* the function returns the num_iterations paths iter1..iterN in iteration
\* order after N saved requests, or the empty list right after the first
\* failed request, with the files of the earlier iterations still on disk;
\* main starts the comparison only on the full list.
C28_AllPathsOrNone ==
    /\ \A k \in 1..Len(responses) : k < Len(responses) => responses[k] = "saved"
    /\ FetchReturned =>
          \/ /\ prediction_file_paths = AllPaths
             /\ Len(responses) = num_iterations
             /\ \A k \in 1..Len(responses) : responses[k] = "saved"
          \/ /\ prediction_file_paths = <<>>
             /\ responses # <<>>
             /\ responses[Len(responses)] # "saved"
             /\ disk_files = 1..(Len(responses) - 1)
    /\ (fetch_pc = "comparing" \/ pc # "idle") =>
          /\ prediction_file_paths = AllPaths
          /\ num_iterations > 0
          /\ Len(pr_files) = num_iterations

\* C28 witness: the second of two iterations failed after the first was
\* saved; the function returned the empty list, iter1.json is on disk, and
\* main ended without a comparison
C28_Witness ==
    /\ fetch_pc = "aborted" /\ pc = "idle"
    /\ num_iterations >= 2
    /\ responses = <<"saved", "error_status">>
    /\ disk_files = {1}
    /\ prediction_file_paths = <<>>


\* the number of rows of tenant t's report with the given status
Rows_(t, status) == Cardinality({i \in 1..Len(reports[t]) : reports[t][i] = status})
\* value is n/d in ten-thousandths up to rounding, 0 when d is 0, and n <= d
IsRatio(value, n, d) ==
    /\ n <= d
    /\ d = 0 => value = 0
    /\ d > 0 => /\ 2 * (value * d - 10000 * n) <= d
                /\ 2 * (10000 * n - value * d) <= d

\* C30: for a report that was read, the five status counts of
\* calculate_metrics_from_csv are the numbers of rows with each status and
\* sum to total_fields, the number of rows; coverage is (match + mismatch) /
\* (match + mismatch + GT-present-PR-absent) and accuracy is match / (match +
\* mismatch), each with numerator <= denominator and 0 when the denominator
\* is 0; the per-tenant calculator has one row per tenant with report rows
\* and its percentages are the same ratios of the tenant's rows.
C30_MetricsFormulas ==
    /\ metrics.readable =>
          LET t == metrics.tenantId
              v == metrics.values
          IN /\ v.total_fields = Len(reports[t])
             /\ v.gt_present_pr_present_match + v.gt_present_pr_present_mismatch
                   + v.gt_present_pr_absent + v.gt_absent_pr_present
                   + v.gt_absent_pr_absent = v.total_fields
             /\ v.gt_present_pr_present_match = Rows_(t, "GT Present PR Present and match")
             /\ v.gt_present_pr_present_mismatch = Rows_(t, "GT Present PR Present but mismatch")
             /\ v.gt_present_pr_absent = Rows_(t, "GT Present PR Absent")
             /\ v.gt_absent_pr_present = Rows_(t, "GT Absent PR Present")
             /\ v.gt_absent_pr_absent = Rows_(t, "GT Absent PR Absent")
             /\ IsRatio(v.coverage,
                        v.gt_present_pr_present_match + v.gt_present_pr_present_mismatch,
                        v.gt_present_pr_present_match + v.gt_present_pr_present_mismatch
                           + v.gt_present_pr_absent)
             /\ IsRatio(v.accuracy, v.gt_present_pr_present_match,
                        v.gt_present_pr_present_match + v.gt_present_pr_present_mismatch)
    /\ summary.ok =>
          /\ DOMAIN summary.table = {t \in Tenants : reports[t] # <<>>}
          /\ \A t \in DOMAIN summary.table :
                LET match == Rows_(t, "GT Present PR Present and match")
                    mismatch == Rows_(t, "GT Present PR Present but mismatch")
                    gt_only == Rows_(t, "GT Present PR Absent")
                    r == summary.table[t]
                IN /\ r.Coverage.hundredths \in 0..99
                   /\ r.Accuracy.hundredths \in 0..99
                   /\ IsRatio(100 * r.Coverage.whole + r.Coverage.hundredths,
                              match + mismatch, match + mismatch + gt_only)
                   /\ IsRatio(100 * r.Accuracy.whole + r.Accuracy.hundredths,
                              match, match + mismatch)

\* C30 witness: a report with a match, a mismatch and a reference-only row
\* gave coverage 2/3 and accuracy 1/2, and the per-tenant table has the same
\* percentages for it and zeros for a tenant whose only row has no reference
C30_Witness ==
    /\ metrics.readable /\ metrics.tenantId = 1
    /\ metrics.values.total_fields = 3
    /\ metrics.values.coverage = 6667
    /\ metrics.values.accuracy = 5000
    /\ summary.ok
    /\ summary.table[1].Coverage = [whole |-> 66, hundredths |-> 67]
    /\ summary.table[1].Accuracy = [whole |-> 50, hundredths |-> 0]
    /\ reports[2] = <<"GT Absent PR Present">>
    /\ summary.table[2].Coverage = [whole |-> 0, hundredths |-> 0]

====
